---------------------------- MODULE Spec2Model ----------------------------
(***************************************************************************)
(* Model of the test-data generator scripts under apps/web/scripts.        *)
(* The luxury-vehicle inventory generator (car_inventory_generator.py) is  *)
(* modelled call by call: every random.* call of generate_car consumes one *)
(* raw output of the PRNG, carried in a record d of raw draws, and maps it *)
(* into its range the way the library call does.  The CSV scripts          *)
(* (generate_client_data.py, generate_dealer_data.py and the loader of     *)
(* generate_venote_data.py) are modelled as steps over one working         *)
(* directory, a file being the list of its lines.                          *)
(***************************************************************************)
EXTENDS Integers, Sequences, FiniteSets, TLC

VARIABLES
  now,        \* wall clock read by datetime.now(): [y, m, d]
  ticks,      \* number of midnights passed since the start
  car,        \* the record returned by the last generate_car() call
  frame,      \* locals of that call that the record does not carry
  pc,         \* "call" / "returned" around generate_car(); "generate" / "done"
              \* around generate_inventory()
  count,      \* the argument of generate_inventory
  inventory,  \* the list generate_inventory builds and returns
  tape,       \* the raw draws the PRNG has yielded since its start state, one
              \* entry per generate_car() call
  second,     \* a second run of generate_inventory started from the same
              \* PRNG state: [pc, now, ticks, inventory]
  files,      \* the working directory: file name -> [writer, lines], the lines
              \* being the text of the file cut at its line terminators
  client_ids, \* what load_client_ids has returned or raised, None before
  ran,        \* the top-level steps of the scripts run so far, in order
  contact     \* the dict ContactGenerator.generate_contact() returned, None
              \* before

vars ==
  <<now, ticks, car, frame, pc, count, inventory, tape, second,
    files, client_ids, ran, contact>>

\* ---------------------------------------------------------------------------
\* Bounds of the model
\* ---------------------------------------------------------------------------
\* number of intervals a randint range is sampled at
Grid == 2

\* strides of the raw sequences fed to random.sample and to generate_vin
SampleStrides == 1

VinStrides == 1

\* midnights that may pass while the program runs
MaxTicks == 1

\* largest batch size passed to generate_inventory
MaxCount == 2

\* largest count of rows generate_clients_csv is called with
MaxClients == 2

\* largest count of rows generate_dealerships_csv is called with
MaxDealerships == 2

\* largest count of client rows in the clients.csv the notes script reads
MaxIds == 2

\* values added to the sampled ranges so that band thresholds, inexact
\* products and rounding cases are drawn
MileageProbes == {99, 100, 13156}

PriceProbes == {247000}

MultProbes == {1003}

StartDate == [y |-> 2025, m |-> 12, d |-> 31]

\* self.makes_data: make -> model -> ModelSpec
makes_data ==
  "BMW" :> [models |-> (
      "M3" :>
        [years |-> <<2022, 2023, 2024, 2025>>,
         trims |-> <<"Base", "Competition">>,
         hp_range |-> <<473, 503>>,
         transmission |-> <<"6-Speed Manual", "8-Speed Automatic">>,
         body_type |-> "Sedan",
         price_range |-> <<72000, 85000>>] @@
      "M4" :>
        [years |-> <<2022, 2023, 2024, 2025>>,
         trims |-> <<"Base", "Competition", "CSL">>,
         hp_range |-> <<473, 543>>,
         transmission |-> <<"6-Speed Manual", "8-Speed Automatic">>,
         body_type |-> "Coupe",
         price_range |-> <<74000, 142000>>] @@
      "M5" :>
        [years |-> <<2022, 2023, 2024>>,
         trims |-> <<"Base", "Competition">>,
         hp_range |-> <<600, 617>>,
         transmission |-> <<"8-Speed Automatic">>,
         body_type |-> "Sedan",
         price_range |-> <<105000, 115000>>] @@
      "X5 M" :>
        [years |-> <<2022, 2023, 2024>>,
         trims |-> <<"Base", "Competition">>,
         hp_range |-> <<600, 617>>,
         transmission |-> <<"8-Speed Automatic">>,
         body_type |-> "SUV",
         price_range |-> <<107000, 117000>>] @@
      "M8" :>
        [years |-> <<2022, 2023, 2024>>,
         trims |-> <<"Gran Coupe", "Competition">>,
         hp_range |-> <<600, 617>>,
         transmission |-> <<"8-Speed Automatic">>,
         body_type |-> "Coupe",
         price_range |-> <<133000, 146000>>])] @@
  "Mercedes-AMG" :> [models |-> (
      "C63 S" :>
        [years |-> <<2022, 2023, 2024>>,
         trims |-> <<"Base", "S">>,
         hp_range |-> <<469, 503>>,
         transmission |-> <<"9-Speed Automatic">>,
         body_type |-> "Sedan",
         price_range |-> <<75000, 85000>>] @@
      "E63 S" :>
        [years |-> <<2022, 2023, 2024>>,
         trims |-> <<"Base", "S">>,
         hp_range |-> <<603, 603>>,
         transmission |-> <<"9-Speed Automatic">>,
         body_type |-> "Sedan",
         price_range |-> <<108000, 115000>>] @@
      "GT" :>
        [years |-> <<2022, 2023, 2024>>,
         trims |-> <<"Base", "S", "R", "Black Series">>,
         hp_range |-> <<523, 720>>,
         transmission |-> <<"7-Speed DCT">>,
         body_type |-> "Coupe",
         price_range |-> <<99000, 325000>>] @@
      "G63" :>
        [years |-> <<2022, 2023, 2024, 2025>>,
         trims |-> <<"Base">>,
         hp_range |-> <<577, 577>>,
         transmission |-> <<"9-Speed Automatic">>,
         body_type |-> "SUV",
         price_range |-> <<156000, 175000>>])] @@
  "Audi" :> [models |-> (
      "RS3" :>
        [years |-> <<2022, 2023, 2024>>,
         trims |-> <<"Base">>,
         hp_range |-> <<401, 401>>,
         transmission |-> <<"7-Speed DCT">>,
         body_type |-> "Sedan",
         price_range |-> <<60000, 65000>>] @@
      "RS5" :>
        [years |-> <<2022, 2023, 2024>>,
         trims |-> <<"Sportback">>,
         hp_range |-> <<444, 444>>,
         transmission |-> <<"8-Speed Automatic">>,
         body_type |-> "Coupe",
         price_range |-> <<76000, 82000>>] @@
      "RS6 Avant" :>
        [years |-> <<2022, 2023, 2024>>,
         trims |-> <<"Base">>,
         hp_range |-> <<591, 591>>,
         transmission |-> <<"8-Speed Automatic">>,
         body_type |-> "Wagon",
         price_range |-> <<116000, 125000>>] @@
      "RS7" :>
        [years |-> <<2022, 2023, 2024>>,
         trims |-> <<"Base">>,
         hp_range |-> <<591, 591>>,
         transmission |-> <<"8-Speed Automatic">>,
         body_type |-> "Sedan",
         price_range |-> <<117000, 125000>>] @@
      "R8" :>
        [years |-> <<2022, 2023, 2024>>,
         trims |-> <<"V10", "V10 Performance">>,
         hp_range |-> <<562, 602>>,
         transmission |-> <<"7-Speed DCT">>,
         body_type |-> "Coupe",
         price_range |-> <<158000, 210000>>])] @@
  "Nissan" :> [models |-> (
      "GT-R" :>
        [years |-> <<2022, 2023, 2024>>,
         trims |-> <<"Premium", "Track Edition", "NISMO">>,
         hp_range |-> <<565, 600>>,
         transmission |-> <<"6-Speed DCT">>,
         body_type |-> "Coupe",
         price_range |-> <<115000, 215000>>])] @@
  "Lamborghini" :> [models |-> (
      "Huracan" :>
        [years |-> <<2022, 2023, 2024>>,
         trims |-> <<"EVO", "EVO RWD", "Tecnica", "STO">>,
         hp_range |-> <<602, 640>>,
         transmission |-> <<"7-Speed DCT">>,
         body_type |-> "Coupe",
         price_range |-> <<220000, 330000>>] @@
      "Urus" :>
        [years |-> <<2022, 2023, 2024>>,
         trims |-> <<"Base", "S", "Performante">>,
         hp_range |-> <<641, 666>>,
         transmission |-> <<"8-Speed Automatic">>,
         body_type |-> "SUV",
         price_range |-> <<230000, 260000>>] @@
      "Aventador" :>
        [years |-> <<2022>>,
         trims |-> <<"LP 780-4 Ultimae">>,
         hp_range |-> <<769, 769>>,
         transmission |-> <<"7-Speed ISR">>,
         body_type |-> "Coupe",
         price_range |-> <<500000, 550000>>] @@
      "Revuelto" :>
        [years |-> <<2024, 2025>>,
         trims |-> <<"Base">>,
         hp_range |-> <<1001, 1001>>,
         transmission |-> <<"8-Speed DCT">>,
         body_type |-> "Coupe",
         price_range |-> <<600000, 650000>>])] @@
  "Porsche" :> [models |-> (
      "911 Carrera" :>
        [years |-> <<2022, 2023, 2024, 2025>>,
         trims |-> <<"Base", "S", "GTS", "Turbo", "Turbo S">>,
         hp_range |-> <<379, 640>>,
         transmission |-> <<"7-Speed Manual", "8-Speed PDK">>,
         body_type |-> "Coupe",
         price_range |-> <<107000, 230000>>] @@
      "911 GT3" :>
        [years |-> <<2022, 2023, 2024>>,
         trims |-> <<"Base", "Touring", "RS">>,
         hp_range |-> <<502, 518>>,
         transmission |-> <<"6-Speed Manual", "7-Speed PDK">>,
         body_type |-> "Coupe",
         price_range |-> <<162000, 225000>>] @@
      "Taycan" :>
        [years |-> <<2022, 2023, 2024, 2025>>,
         trims |-> <<"Base", "4S", "GTS", "Turbo", "Turbo S">>,
         hp_range |-> <<402, 938>>,
         transmission |-> <<"2-Speed Automatic">>,
         body_type |-> "Sedan",
         price_range |-> <<90000, 185000>>] @@
      "Cayenne" :>
        [years |-> <<2022, 2023, 2024, 2025>>,
         trims |-> <<"Base", "S", "GTS", "Turbo GT">>,
         hp_range |-> <<348, 631>>,
         transmission |-> <<"8-Speed Automatic">>,
         body_type |-> "SUV",
         price_range |-> <<72000, 180000>>])] @@
  "Ferrari" :> [models |-> (
      "F8 Tributo" :>
        [years |-> <<2022, 2023>>,
         trims |-> <<"Base", "Spider">>,
         hp_range |-> <<710, 710>>,
         transmission |-> <<"7-Speed DCT">>,
         body_type |-> "Coupe",
         price_range |-> <<280000, 320000>>] @@
      "SF90 Stradale" :>
        [years |-> <<2022, 2023, 2024>>,
         trims |-> <<"Base", "Spider">>,
         hp_range |-> <<986, 986>>,
         transmission |-> <<"8-Speed DCT">>,
         body_type |-> "Coupe",
         price_range |-> <<507000, 570000>>] @@
      "Roma" :>
        [years |-> <<2022, 2023, 2024>>,
         trims |-> <<"Base">>,
         hp_range |-> <<612, 612>>,
         transmission |-> <<"8-Speed DCT">>,
         body_type |-> "Coupe",
         price_range |-> <<243000, 260000>>] @@
      "296 GTB" :>
        [years |-> <<2023, 2024, 2025>>,
         trims |-> <<"Base">>,
         hp_range |-> <<818, 818>>,
         transmission |-> <<"8-Speed DCT">>,
         body_type |-> "Coupe",
         price_range |-> <<320000, 350000>>])] @@
  "McLaren" :> [models |-> (
      "720S" :>
        [years |-> <<2022, 2023>>,
         trims |-> <<"Base", "Spider">>,
         hp_range |-> <<710, 710>>,
         transmission |-> <<"7-Speed DCT">>,
         body_type |-> "Coupe",
         price_range |-> <<310000, 345000>>] @@
      "Artura" :>
        [years |-> <<2023, 2024, 2025>>,
         trims |-> <<"Base">>,
         hp_range |-> <<671, 671>>,
         transmission |-> <<"8-Speed DCT">>,
         body_type |-> "Coupe",
         price_range |-> <<237000, 260000>>] @@
      "765LT" :>
        [years |-> <<2022, 2023>>,
         trims |-> <<"Base", "Spider">>,
         hp_range |-> <<755, 755>>,
         transmission |-> <<"7-Speed DCT">>,
         body_type |-> "Coupe",
         price_range |-> <<382000, 420000>>])]

\* list(self.makes_data.keys()): dict keys in insertion order
MakeKeys ==
  <<"BMW", "Mercedes-AMG", "Audi", "Nissan", "Lamborghini", "Porsche",
  "Ferrari", "McLaren">>

\* list(make_data["models"].keys()) for every make, in insertion order
ModelKeys ==
  "BMW" :> <<"M3", "M4", "M5", "X5 M", "M8">> @@
  "Mercedes-AMG" :> <<"C63 S", "E63 S", "GT", "G63">> @@
  "Audi" :> <<"RS3", "RS5", "RS6 Avant", "RS7", "R8">> @@
  "Nissan" :> <<"GT-R">> @@
  "Lamborghini" :> <<"Huracan", "Urus", "Aventador", "Revuelto">> @@
  "Porsche" :> <<"911 Carrera", "911 GT3", "Taycan", "Cayenne">> @@
  "Ferrari" :> <<"F8 Tributo", "SF90 Stradale", "Roma", "296 GTB">> @@
  "McLaren" :> <<"720S", "Artura", "765LT">>

\* self.exterior_colors
exterior_colors ==
  <<"Alpine White", "Black Sapphire", "Portimao Blue", "Brooklyn Grey",
  "Tanzanite Blue", "Isle of Man Green", "Frozen Marina Bay Blue",
  "Obsidian Black", "Polar White", "Iridium Silver", "Selenite Grey",
  "Spectral Blue", "Patagonia Red", "Jupiter Red", "Rosso Corsa",
  "Giallo Modena", "Nero Daytona", "Bianco Avus", "Verde Mantis",
  "Arancio Borealis", "Rosso Mars", "Blu Uranus", "Grigio Telesto",
  "Racing Yellow", "Guards Red", "Miami Blue", "Chalk", "Carmine Red",
  "Jet Black Metallic", "Designo Diamond White", "Obsidian Black Metallic",
  "GT Silver Metallic", "Nardo Grey", "Suzuka Grey", "Championship White">>

\* self.interior_colors
interior_colors ==
  <<"Black", "Black/Red", "Cognac", "Saddle Brown", "Merino Beige",
  "Silverstone", "Black/Blue", "Mugello Red", "Extended Black", "Tartufo",
  "Black/Yellow Contrast", "Red/Black", "White/Black">>

\* mutation of options: a pool of seven labels
OptionsSeven ==
  <<"Carbon Fiber Package", "Executive Package", "Sport Exhaust System",
  "M Driver's Package", "Premium Package", "Technology Package",
  "Adaptive M Suspension">>

\* self.options
options ==
  <<"Carbon Fiber Package", "Executive Package", "Sport Exhaust System",
  "M Driver's Package", "Premium Package", "Technology Package",
  "Adaptive M Suspension", "Carbon Ceramic Brakes", "Head-Up Display",
  "Harman Kardon Audio", "Burmester Audio", "Bang & Olufsen Audio",
  "Panoramic Sunroof", "Heated/Ventilated Seats", "Massage Seats",
  "Night Vision", "360° Camera System", "Parking Assist Plus",
  "Alcantara Headliner", "Carbon Fiber Interior Trim",
  "Full Leather Interior", "Sport Chrono Package",
  "PCCB (Carbon Ceramic Brakes)", "Lift System",
  "Lightweight Sports Package", "Aero Package", "Track Package">>

\* ---------------------------------------------------------------------------
\* Python float arithmetic (IEEE-754 binary64, round-half-to-even), as used by
\* the price computation.  TLC integers are 32 bits wide, so 53-bit mantissas
\* and their 106-bit products are held as little-endian sequences of limbs in
\* base 2^14.  Only positive finite normal values occur in generate_car.
\* ---------------------------------------------------------------------------
LimbBits == 14

LimbBase == 16384

MantBits == 53

DivGuardBits == 70

RECURSIVE Pow2(_)
Pow2(k) == IF k = 0 THEN 1 ELSE 2 * Pow2(k - 1)

RECURSIVE IntBitLen(_)
IntBitLen(n) == IF n = 0 THEN 0 ELSE 1 + IntBitLen(n \div 2)

RECURSIVE BTrim(_)
BTrim(a) ==
  IF a = <<>> THEN <<>>
  ELSE IF a[Len(a)] = 0 THEN BTrim(SubSeq(a, 1, Len(a) - 1)) ELSE a

RECURSIVE BFromInt(_)
BFromInt(n) ==
  IF n = 0 THEN <<>> ELSE <<n % LimbBase>> \o BFromInt(n \div LimbBase)

RECURSIVE BToInt(_)
BToInt(a) == IF a = <<>> THEN 0 ELSE a[1] + LimbBase * BToInt(Tail(a))

RECURSIVE BAddC(_, _, _)
BAddC(a, b, c) ==
  IF a = <<>> /\ b = <<>> THEN (IF c = 0 THEN <<>> ELSE <<c>>)
  ELSE LET x == IF a = <<>> THEN 0 ELSE a[1]
           y == IF b = <<>> THEN 0 ELSE b[1]
           t == x + y + c
       IN <<t % LimbBase>> \o
          BAddC(IF a = <<>> THEN <<>> ELSE Tail(a),
                IF b = <<>> THEN <<>> ELSE Tail(b), t \div LimbBase)

BAdd(a, b) == BAddC(a, b, 0)

RECURSIVE BSubC(_, _, _)
BSubC(a, b, c) ==
  IF a = <<>> THEN <<>>
  ELSE LET y == IF b = <<>> THEN 0 ELSE b[1]
           t == a[1] - y - c
       IN <<t % LimbBase>> \o
          BSubC(Tail(a), IF b = <<>> THEN <<>> ELSE Tail(b),
                IF t < 0 THEN 1 ELSE 0)

BSub(a, b) == BTrim(BSubC(a, b, 0))

RECURSIVE BMulSmallC(_, _, _)
BMulSmallC(a, k, c) ==
  IF a = <<>> THEN (IF c = 0 THEN <<>> ELSE <<c>>)
  ELSE LET t == a[1] * k + c
       IN <<t % LimbBase>> \o BMulSmallC(Tail(a), k, t \div LimbBase)

BMulSmall(a, k) == BTrim(BMulSmallC(a, k, 0))

RECURSIVE BMul(_, _)
BMul(a, b) ==
  IF a = <<>> \/ b = <<>> THEN <<>>
  ELSE BTrim(BAdd(BMulSmall(a, b[1]), <<0>> \o BMul(a, Tail(b))))

\* one step of the long division by d: the limb below the quotient hi.q,
\* hi.r being the remainder carried down
BDivStep(hi, limb, d) ==
  [q |-> <<(hi.r * LimbBase + limb) \div d>> \o hi.q,
   r |-> (hi.r * LimbBase + limb) % d]

RECURSIVE BDivRec(_, _)
BDivRec(a, d) ==
  IF a = <<>> THEN [q |-> <<>>, r |-> 0]
  ELSE BDivStep(BDivRec(Tail(a), d), a[1], d)

BTrimQ(qr) == [q |-> BTrim(qr.q), r |-> qr.r]

BDivSmall(a, d) == BTrimQ(BDivRec(a, d))

BitLen(a) ==
  IF a = <<>> THEN 0 ELSE LimbBits * (Len(a) - 1) + IntBitLen(a[Len(a)])

BShl(a, k) ==
  IF a = <<>> THEN <<>>
  ELSE [i \in 1..(k \div LimbBits) |-> 0] \o BMulSmall(a, Pow2(k % LimbBits))

BShr(a, k) ==
  IF k \div LimbBits >= Len(a) THEN <<>>
  ELSE BDivSmall(SubSeq(a, (k \div LimbBits) + 1, Len(a)), Pow2(k % LimbBits)).q

RECURSIVE BCmp(_, _)
BCmp(a, b) ==
  IF Len(a) # Len(b) THEN (IF Len(a) < Len(b) THEN -1 ELSE 1)
  ELSE IF a = <<>> THEN 0
  ELSE IF a[Len(a)] # b[Len(b)] THEN (IF a[Len(a)] < b[Len(b)] THEN -1 ELSE 1)
  ELSE BCmp(SubSeq(a, 1, Len(a) - 1), SubSeq(b, 1, Len(b) - 1))

\* the mantissa q1 after rounding, renormalised when the round-up carried
\* into a 54th bit
FCarry(q1, e) ==
  IF BitLen(q1) > MantBits THEN [m |-> BShr(q1, 1), e |-> e + 1]
  ELSE [m |-> q1, e |-> e]

\* round half to even: c compares the bits cut off with half a unit of q
RoundsUp(c, q) == c = 1 \/ (c = 0 /\ q[1] % 2 = 1)

\* n * 2^e cut to the mantissa q = n \div 2^k
FCut(n, e, k, q) ==
  FCarry(IF RoundsUp(BCmp(BSub(n, BShl(q, k)), BShl(<<1>>, k - 1)), q)
           THEN BAdd(q, <<1>>) ELSE q,
         e + k)

\* the double nearest to n * 2^e, n having l bits
FNormal(n, e, l) ==
  IF l <= MantBits
    THEN [m |-> BShl(n, MantBits - l), e |-> e - (MantBits - l)]
    ELSE FCut(n, e, l - MantBits, BShr(n, l - MantBits))

FNearest(n, e) == FNormal(n, e, BitLen(n))

\* The double nearest to (n + sticky/2) * 2^e, ties to even; sticky = 1 records
\* a non-zero remainder below the last bit of n.
FRound(n, e, sticky) ==
  IF sticky = 0 THEN FNearest(n, e)
  ELSE FNearest(BAdd(BMulSmall(n, 2), <<1>>), e - 1)

FFromInt(n) == FRound(BFromInt(n), 0, 0)

FFromQuotient(qr) ==
  FRound(qr.q, 0 - DivGuardBits, IF qr.r = 0 THEN 0 ELSE 1)

\* int / int true division, and the value of a decimal literal n/d
FDivInt(n, d) == FFromQuotient(BDivSmall(BShl(BFromInt(n), DivGuardBits), d))

FMul(x, y) == FRound(BMul(x.m, y.m), x.e + y.e, 0)

FSubAligned(x, y, emin) ==
  FRound(BSub(BShl(x.m, x.e - emin), BShl(y.m, y.e - emin)), emin, 0)

\* x - y for x >= y > 0
FSub(x, y) == FSubAligned(x, y, IF x.e < y.e THEN x.e ELSE y.e)

\* int(x) for x > 0: truncation toward zero
FTrunc(x) ==
  IF x.e >= 0 THEN BToInt(BShl(x.m, x.e)) ELSE BToInt(BShr(x.m, 0 - x.e))

\* ---------------------------------------------------------------------------
\* Python built-ins and the random module
\* ---------------------------------------------------------------------------
\* sub in s, for strings
In(sub, s) ==
  \E i \in 1..(Len(s) - Len(sub) + 1) : SubSeq(s, i, i + Len(sub) - 1) = sub

\* random.choice(seq) when the PRNG yields r
Choice(seq, r) == seq[(r % Len(seq)) + 1]

\* random.choice(str) when the PRNG yields r
ChoiceChar(str, r) == SubSeq(str, (r % Len(str)) + 1, (r % Len(str)) + 1)

\* mutation of RandInt: the range shifted by one
RandIntShifted(a, b, r) == a + (r % (b - a + 1)) + 1

\* random.randint(a, b) when the PRNG yields r
RandInt(a, b, r) == a + (r % (b - a + 1))

\* mutation of Sample: selection with replacement (random.choices)
SampleWithReplacement(pool, k, rs) ==
  [i \in 1..k |-> pool[(rs[i] % Len(pool)) + 1]]

\* random.sample(pool, k) when the PRNG yields rs[1], rs[2], ...: selection
\* without replacement, the last unselected item moving into the vacancy
RECURSIVE Sample(_, _, _)
Sample(pool, k, rs) ==
  IF k = 0 THEN <<>>
  ELSE LET n == Len(pool)
           j == (rs[1] % n) + 1
       IN <<pool[j]>> \o
          Sample([i \in 1..(n - 1) |-> IF i = j THEN pool[n] ELSE pool[i]],
                 k - 1, Tail(rs))

\* random.choice(seq) raises IndexError on an empty sequence
ChoiceRaises(seq) == Len(seq) = 0

\* random.randint(a, b) raises ValueError on an empty range
RandIntRaises(a, b) == a > b

\* random.sample(pool, k) raises ValueError when k exceeds the pool
SampleRaises(pool, k) == k > Len(pool)

\* sep.join(strs)
RECURSIVE Join(_, _)
Join(sep, strs) ==
  IF strs = <<>> THEN ""
  ELSE IF Len(strs) = 1 THEN strs[1]
  ELSE strs[1] \o sep \o Join(sep, Tail(strs))

\* the csv module's escaping of a quoted field: every quote doubled
RECURSIVE DoubleQuotes(_)
DoubleQuotes(s) ==
  IF Len(s) = 0 THEN ""
  ELSE (IF SubSeq(s, 1, 1) = "\"" THEN "\"\"" ELSE SubSeq(s, 1, 1))
       \o DoubleQuotes(SubSeq(s, 2, Len(s)))

\* a field as the csv writer emits it (excel dialect, QUOTE_MINIMAL): quoted
\* when it holds the delimiter, the quote character or a line break
CsvField(s) ==
  IF In(",", s) \/ In("\"", s) \/ In("\r", s) \/ In("\n", s)
    THEN "\"" \o DoubleQuotes(s) \o "\""
    ELSE s

\* writer.writerow(fields), without the line terminator
CsvLine(fields) == Join(",", [i \in DOMAIN fields |-> CsvField(fields[i])])

\* the position of the first quote or delimiter of the line at or after i,
\* Len(line) + 1 if there is none
NextSpecial(line, i) ==
  LET at == {j \in i..Len(line) : SubSeq(line, j, j) \in {",", "\""}}
                \cup {Len(line) + 1}
  IN CHOOSE j \in at : \A k \in at : j <= k

\* csv.reader on one line, from position i on up to the end of the current
\* field: field is the text of the field read so far, quoted tells whether the
\* reader is inside a quoted field, next is where the field after the delimiter
\* starts (0 at the end of the line); the characters before the next quote or
\* delimiter are added to the field as they are
RECURSIVE CsvParseFrom(_, _, _, _)
CsvParseChar(line, i, c, field, quoted) ==
  IF quoted
    THEN IF c # "\"" THEN CsvParseFrom(line, i + 1, field \o c, TRUE)
         ELSE IF i < Len(line) /\ SubSeq(line, i + 1, i + 1) = "\""
           THEN CsvParseFrom(line, i + 2, field \o "\"", TRUE)
         ELSE CsvParseFrom(line, i + 1, field, FALSE)
    ELSE IF c = "," THEN [field |-> field, next |-> i + 1]
         ELSE IF c = "\"" /\ Len(field) = 0
           THEN CsvParseFrom(line, i + 1, "", TRUE)
         ELSE CsvParseFrom(line, i + 1, field \o c, FALSE)

CsvParseFrom(line, i, field, quoted) ==
  LET stop == NextSpecial(line, i)
      text == field \o SubSeq(line, i, stop - 1)
  IN IF stop > Len(line) THEN [field |-> text, next |-> 0]
     ELSE CsvParseChar(line, stop, SubSeq(line, stop, stop), text, quoted)

\* the fields of the line from position i on
RECURSIVE CsvFieldsFrom(_, _)
CsvFieldsFrom(line, i) ==
  LET read == CsvParseFrom(line, i, "", FALSE)
  IN <<read.field>>
     \o (IF read.next = 0 THEN <<>> ELSE CsvFieldsFrom(line, read.next))

\* the row csv.reader yields for a line: no field at all for an empty line
CsvParse(line) == IF Len(line) = 0 THEN <<>> ELSE CsvFieldsFrom(line, 1)

\* str.zfill-style padding of the %Y, %m and %d fields of strftime
RECURSIVE ZeroPad(_, _)
ZeroPad(s, w) == IF Len(s) >= w THEN s ELSE ZeroPad("0" \o s, w)

\* datetime.strftime("%Y-%m-%d")
Strftime(t) ==
  ZeroPad(ToString(t.y), 4) \o "-" \o ZeroPad(ToString(t.m), 2) \o "-" \o
  ZeroPad(ToString(t.d), 2)

IsLeap(y) == (y % 4 = 0 /\ y % 100 # 0) \/ y % 400 = 0

DaysInMonth(y, m) ==
  IF m = 2 THEN (IF IsLeap(y) THEN 29 ELSE 28)
  ELSE IF m \in {4, 6, 9, 11} THEN 30 ELSE 31

\* the calendar date after t
NextDay(t) ==
  IF t.d < DaysInMonth(t.y, t.m) THEN [t EXCEPT !.d = t.d + 1]
  ELSE IF t.m < 12 THEN [t EXCEPT !.m = t.m + 1, !.d = 1]
  ELSE [y |-> t.y + 1, m |-> 1, d |-> 1]

\* mutation of VinChars: the whole alphabet
VinCharsAll == "ABCDEFGHIJKLMNOPQRSTUVWXYZ0123456789"

\* mutation of VinChars: the digit 0 left out
VinCharsNoZero == "ABCDEFGHJKLMNPRSTUVWXYZ123456789"

\* ---------------------------------------------------------------------------
\* CarInventoryGenerator
\* ---------------------------------------------------------------------------
VinChars == "ABCDEFGHJKLMNPRSTUVWXYZ0123456789"

VinLength == 17

RECURSIVE JoinChoices(_, _, _)
JoinChoices(chars, n, rs) ==
  IF n = 0 THEN "" ELSE ChoiceChar(chars, rs[1]) \o JoinChoices(chars, n - 1, Tail(rs))

generate_vin(rs) == JoinChoices(VinChars, VinLength, rs)

generate_stock_number(r) == "ST" \o ToString(RandInt(10000, 99999, r))

current_year == 2025

\* mutation of MileageBand: the age-0 ceiling with one digit too many
MileageBandWide(year) ==
  LET age == current_year - year
  IN IF age = 0 THEN <<5, 5000>>
     ELSE IF age = 1 THEN <<1000, 15000>>
     ELSE IF age = 2 THEN <<8000, 30000>>
     ELSE <<15000, 50000>>

\* mutation of MileageBand: the age-1 band starting one mile below 1000
MileageBandAgeOneLow(year) ==
  LET age == current_year - year
  IN IF age = 0 THEN <<5, 500>>
     ELSE IF age = 1 THEN <<999, 15000>>
     ELSE IF age = 2 THEN <<8000, 30000>>
     ELSE <<15000, 50000>>

\* the randint range generate_mileage draws from
MileageBand(year) ==
  LET age == current_year - year
  IN IF age = 0 THEN <<5, 500>>
     ELSE IF age = 1 THEN <<1000, 15000>>
     ELSE IF age = 2 THEN <<8000, 30000>>
     ELSE <<15000, 50000>>

\* mutation of generate_mileage: every band starting at zero
generate_mileage_from_zero(year, r) == RandInt(0, MileageBand(year)[2], r)

generate_mileage(year, r) ==
  RandInt(MileageBand(year)[1], MileageBand(year)[2], r)

\* mutation of TransType: "Manual" tested before "DCT"
TransTypeManualFirst(transmission) ==
  IF In("Manual", transmission) THEN "Manual"
  ELSE IF In("DCT", transmission) THEN "DCT"
  ELSE "Automatic"

\* trans_type of generate_car
TransType(transmission) ==
  IF In("DCT", transmission) THEN "DCT"
  ELSE IF In("Manual", transmission) THEN "Manual"
  ELSE "Automatic"

\* mutation of Condition: the New threshold compared with <=
ConditionOffByOne(mileage) ==
  IF mileage <= 100 THEN "New"
  ELSE IF mileage < 1000 THEN "Demo"
  ELSE "Used"

Condition(mileage) ==
  IF mileage < 100 THEN "New"
  ELSE IF mileage < 1000 THEN "Demo"
  ELSE "Used"

\* mutation of Depreciation: half of the price lost over 100000 miles
DepreciationSteep(mileage) ==
  FSub(FFromInt(1), FMul(FDivInt(mileage, 100000), FDivInt(5, 10)))

\* depreciation = 1 - (mileage / 100000 * 0.3)
Depreciation(mileage) ==
  FSub(FFromInt(1), FMul(FDivInt(mileage, 100000), FDivInt(3, 10)))

\* mutation of Price: the Used branch forgets the options
PriceNoOptions(base_price, options_cost, mileage) ==
  IF mileage < 100 THEN base_price + options_cost
  ELSE IF mileage < 1000
    THEN FTrunc(FMul(FFromInt(base_price + options_cost), FDivInt(95, 100)))
  ELSE FTrunc(FMul(FFromInt(base_price), Depreciation(mileage)))

\* mutation of Price: the Used branch deducts an amount per mile
PricePerMile(base_price, options_cost, mileage) ==
  IF mileage < 100 THEN base_price + options_cost
  ELSE IF mileage < 1000
    THEN FTrunc(FMul(FFromInt(base_price + options_cost), FDivInt(95, 100)))
  ELSE base_price + options_cost - mileage * 3

Price(base_price, options_cost, mileage) ==
  IF mileage < 100 THEN base_price + options_cost
  ELSE IF mileage < 1000
    THEN FTrunc(FMul(FFromInt(base_price + options_cost), FDivInt(95, 100)))
  ELSE FTrunc(FMul(FFromInt(base_price + options_cost), Depreciation(mileage)))

\* mutation of AwdOnly: Lamborghini missing from the list of makes
AwdOnlyNoLamborghini(make, model) ==
  \/ make \in {"Audi", "Nissan"}
  \/ In("X5", model)
  \/ In("Cayenne", model)
  \/ In("Urus", model)

\* the condition under which no drivetrain is drawn
AwdOnly(make, model) ==
  \/ make \in {"Audi", "Lamborghini", "Nissan"}
  \/ In("X5", model)
  \/ In("Cayenne", model)
  \/ In("Urus", model)

Drivetrain(make, model, r) ==
  IF AwdOnly(make, model) THEN "AWD" ELSE Choice(<<"RWD", "AWD">>, r)

\* mutation of FuelType: the model name compared in lower case
FuelTypeLower(model) == IF In("taycan", model) THEN "Electric" ELSE "Premium Gasoline"

FuelType(model) == IF In("Taycan", model) THEN "Electric" ELSE "Premium Gasoline"

\* mutation of OptionsCost: one randint draw per selected option
RECURSIVE OptionsCostPerOption(_, _)
OptionsCostPerOption(selected_options, r) ==
  IF selected_options = <<>> THEN 0
  ELSE RandInt(1000, 5000, r + Len(selected_options) * Len(selected_options))
       + OptionsCostPerOption(Tail(selected_options), r)

\* options_cost = len(selected_options) * random.randint(1000, 5000)
OptionsCost(selected_options, r) ==
  Len(selected_options) * RandInt(1000, 5000, r)

\* the locals of generate_car when the PRNG yields the raw draws d
Locals(d) ==
  LET make == Choice(MakeKeys, d.make)
      make_data == makes_data[make]
      model == Choice(ModelKeys[make], d.model)
      model_data == make_data.models[model]
      year == Choice(model_data.years, d.year)
      transmission == Choice(model_data.transmission, d.transmission)
      base_price == RandInt(model_data.price_range[1], model_data.price_range[2],
                            d.base_price)
      num_options == RandInt(3, 8, d.num_options)
      selected_options == Sample(options, num_options, d.sample)
      options_cost == OptionsCost(selected_options, d.opt_mult)
      mileage == generate_mileage(year, d.mileage)
  IN [make |-> make,
      model |-> model,
      year |-> year,
      trim |-> Choice(model_data.trims, d.trim),
      hp |-> RandInt(model_data.hp_range[1], model_data.hp_range[2], d.hp),
      transmission |-> transmission,
      body_type |-> model_data.body_type,
      base_price |-> base_price,
      trans_type |-> TransType(transmission),
      selected_options |-> selected_options,
      options_cost |-> options_cost,
      mileage |-> mileage,
      condition |-> Condition(mileage),
      price |-> Price(base_price, options_cost, mileage)]

\* a sampling step on the entry model_data of the catalog raises
ModelRaises(model_data, d) ==
  \/ ChoiceRaises(model_data.years)
  \/ ChoiceRaises(model_data.trims)
  \/ RandIntRaises(model_data.hp_range[1], model_data.hp_range[2])
  \/ ChoiceRaises(model_data.transmission)
  \/ RandIntRaises(model_data.price_range[1], model_data.price_range[2])
  \/ SampleRaises(options, RandInt(3, 8, d.num_options))
  \/ ChoiceRaises(exterior_colors)
  \/ ChoiceRaises(interior_colors)

MakeRaises(make, d) ==
  \/ ChoiceRaises(ModelKeys[make])
  \/ ModelRaises(makes_data[make].models[Choice(ModelKeys[make], d.model)], d)

\* generate_car ends in an exception when the PRNG yields the raw draws d
Raises(d) ==
  \/ ChoiceRaises(MakeKeys)
  \/ MakeRaises(Choice(MakeKeys, d.make), d)

\* the dict assembled from the locals l of the call
CarDict(l, d, today) ==
  [stock_number |-> generate_stock_number(d.stock),
   vin |-> generate_vin(d.vin),
   condition |-> l.condition,
   year |-> l.year,
   make |-> l.make,
   model |-> l.model,
   trim |-> l.trim,
   body_type |-> l.body_type,
   exterior_color |-> Choice(exterior_colors, d.exterior),
   interior_color |-> Choice(interior_colors, d.interior),
   mileage |-> l.mileage,
   horsepower |-> l.hp,
   transmission |-> l.transmission,
   transmission_type |-> l.trans_type,
   drivetrain |-> Drivetrain(l.make, l.model, d.drivetrain),
   fuel_type |-> FuelType(l.model),
   options |-> l.selected_options,
   price |-> l.price,
   date_added |-> Strftime(today)]

\* the locals l with the mileage, and what follows from it, recomputed
Remeasured(l, mileage) ==
  [l EXCEPT !.mileage = mileage,
            !.condition = Condition(mileage),
            !.price = Price(l.base_price, l.options_cost, mileage)]

ClockAge(l, d, today) ==
  Remeasured(l, generate_mileage(l.year - (today.y - current_year), d.mileage))

\* mutation of generate_car: the age of the vehicle taken from the clock
generate_car_clock_age(d, today) ==
  CarDict(ClockAge(Locals(d), d, today), d, today)

\* the dict generate_car returns when the PRNG yields d and the clock reads today
generate_car(d, today) == CarDict(Locals(d), d, today)

\* the keys of the dict generate_car returns, in insertion order
FieldNames ==
  <<"stock_number", "vin", "condition", "year", "make", "model", "trim",
    "body_type", "exterior_color", "interior_color", "mileage", "horsepower",
    "transmission", "transmission_type", "drivetrain", "fuel_type", "options",
    "price", "date_added">>

\* mutation of CarCopy: the options joined by ", "
CarCopyCommas(c) == [c EXCEPT !.options = Join(", ", c.options)]

\* car_copy = car.copy(); car_copy['options'] = '; '.join(car['options'])
CarCopy(c) == [c EXCEPT !.options = Join("; ", c.options)]

\* str(value) of the value the csv writer finds under key k
CsvValue(car_copy, k) ==
  IF k \in {"year", "mileage", "horsepower", "price"}
    THEN ToString(car_copy[k])
    ELSE car_copy[k]

\* writer.writerow(car_copy) of a DictWriter with fieldnames keys
CsvRow(car_copy, keys) ==
  CsvLine([i \in DOMAIN keys |-> CsvValue(car_copy, keys[i])])

\* mutation of save_to_csv: the header written before the emptiness test
save_to_csv_header_first(inv, filename, fs) ==
  (filename :>
     [writer |-> "car_inventory_generator.py",
      lines |-> <<CsvLine(FieldNames)>> \o
                [i \in DOMAIN inv |-> CsvRow(CarCopy(inv[i]), FieldNames)]])
  @@ fs

\* the working directory fs after save_to_csv(inv, filename)
save_to_csv(inv, filename, fs) ==
  IF inv = <<>> THEN fs
  ELSE (filename :>
          [writer |-> "car_inventory_generator.py",
           lines |-> <<CsvLine(FieldNames)>> \o
                     [i \in DOMAIN inv |-> CsvRow(CarCopy(inv[i]), FieldNames)]])
       @@ fs

\* mutation of CarAfterRow: car_copy = car, the two names on one dict
CarAfterRowAliased(c) == CarCopy(c)

\* the dict car once the loop body of save_to_csv has run on it: car.copy() is
\* a second dict, and the assignment to car_copy['options'] rebinds a key of
\* that second dict only
CarAfterRow(c) ==
  LET dicts == [car |-> c, car_copy |-> c]
      assigned == [dicts EXCEPT !.car_copy.options = Join("; ", c.options)]
  IN assigned.car

\* the list inventory after save_to_csv(inv, filename)
InventoryAfterCsv(inv) ==
  IF inv = <<>> THEN inv ELSE [i \in DOMAIN inv |-> CarAfterRow(inv[i])]

\* the json module's string literal (ensure_ascii=False): quotes, backslashes
\* and control characters escaped, everything else as it is
RECURSIVE JsonEscape(_)
JsonEscape(s) ==
  IF Len(s) = 0 THEN ""
  ELSE (LET ch == SubSeq(s, 1, 1)
        IN IF ch = "\"" THEN "\\\""
           ELSE IF ch = "\\" THEN "\\\\"
           ELSE IF ch = "\n" THEN "\\n"
           ELSE IF ch = "\r" THEN "\\r"
           ELSE IF ch = "\t" THEN "\\t"
           ELSE ch)
       \o JsonEscape(SubSeq(s, 2, Len(s)))

JsonString(s) == "\"" \o JsonEscape(s) \o "\""

\* the lines of a list of strings dumped at the given indentation, without
\* what precedes the opening bracket
JsonList(strs, indent) ==
  IF strs = <<>> THEN <<"[]">>
  ELSE <<"[">>
       \o [j \in DOMAIN strs |->
             indent \o "  " \o JsonString(strs[j])
               \o (IF j < Len(strs) THEN "," ELSE "")]
       \o <<indent \o "]">>

\* the lines of the value under key k of the dict c
JsonValue(c, k) ==
  IF k \in {"year", "mileage", "horsepower", "price"} THEN <<ToString(c[k])>>
  ELSE IF k = "options" THEN JsonList(c[k], "    ")
  ELSE <<JsonString(c[k])>>

\* the lines of the member under the i-th key of the dict c
JsonMember(c, keys, i) ==
  LET value == JsonValue(c, keys[i])
      comma == IF i < Len(keys) THEN "," ELSE ""
  IN <<"    " \o JsonString(keys[i]) \o ": " \o value[1]
         \o (IF Len(value) = 1 THEN comma ELSE "")>>
     \o (IF Len(value) = 1 THEN <<>>
         ELSE SubSeq(value, 2, Len(value) - 1)
              \o <<value[Len(value)] \o comma>>)

RECURSIVE Flatten(_)
Flatten(seqs) == IF seqs = <<>> THEN <<>> ELSE seqs[1] \o Flatten(Tail(seqs))

\* the lines of json.dump(inv, f, indent=2, ensure_ascii=False)
JsonDump(inv) ==
  IF inv = <<>> THEN <<"[]">>
  ELSE <<"[">>
       \o Flatten([i \in DOMAIN inv |->
            <<"  {">>
            \o Flatten([k \in DOMAIN FieldNames |-> JsonMember(inv[i], FieldNames, k)])
            \o <<"  }" \o (IF i < Len(inv) THEN "," ELSE "")>>])
       \o <<"]">>

\* the working directory fs after save_to_json(inv, filename)
save_to_json(inv, filename, fs) ==
  (filename :> [writer |-> "car_inventory_generator.py", lines |-> JsonDump(inv)])
  @@ fs

\* ---------------------------------------------------------------------------
\* The raw draws the model feeds to generate_car.  Each group varies the draws
\* of some of the random.* calls over their sampled ranges and holds the
\* others at raw 0.
\* ---------------------------------------------------------------------------
Focus == {"catalog", "pricing", "options", "ident", "colors"}

\* raws r for which RandInt(a, b, r) hits the sampled points of a..b
Raws(a, b, probes) ==
  {((b - a) * k) \div Grid : k \in 0..Grid} \cup {p - a : p \in probes \cap (a..b)}

Indexes(seq) == 0..(Len(seq) - 1)

When(cond, set) == IF cond THEN set ELSE {0}

SampleRaws(k) ==
  {[i \in 1..k |-> (s + (i - 1) * st) % (Len(options) + 1 - i)] :
     s \in Indexes(options), st \in 0..SampleStrides}

VinRaws ==
  {[i \in 1..VinLength |-> (s + (i - 1) * st) % Len(VinChars)] :
     s \in 0..(Len(VinChars) - 1), st \in 0..VinStrides}

\* the draws of one call once the model, the year and the option count are fixed
CallDraws(f, mk, md, yr, no) ==
  LET make == Choice(MakeKeys, mk)
      model == Choice(ModelKeys[make], md)
      c == makes_data[make].models[model]
      band == MileageBand(Choice(c.years, yr))
      k == RandInt(3, 8, no)
  IN {[make |-> mk, model |-> md, year |-> yr, trim |-> tr, hp |-> hp,
       transmission |-> tm, base_price |-> bp, num_options |-> no,
       sample |-> sm, opt_mult |-> om, mileage |-> mi, stock |-> st,
       vin |-> vn, exterior |-> ec, interior |-> ic, drivetrain |-> dt] :
        tr \in When(f = "catalog", Indexes(c.trims)),
        hp \in When(f = "catalog", Raws(c.hp_range[1], c.hp_range[2], {})),
        tm \in When(f = "catalog", Indexes(c.transmission)),
        bp \in When(f = "pricing",
                    Raws(c.price_range[1], c.price_range[2], PriceProbes)),
        sm \in IF f = "options" THEN SampleRaws(k) ELSE {[i \in 1..k |-> 0]},
        om \in When(f \in {"pricing", "options"}, Raws(1000, 5000, MultProbes)),
        mi \in When(f = "pricing", Raws(band[1], band[2], MileageProbes)),
        st \in When(f = "ident", Raws(10000, 99999, {})),
        vn \in IF f = "ident" THEN VinRaws ELSE {[i \in 1..VinLength |-> 0]},
        ec \in When(f = "colors", Indexes(exterior_colors)),
        ic \in When(f = "colors", Indexes(interior_colors)),
        dt \in When(f = "catalog" /\ ~AwdOnly(make, model), {0, 1})}

\* the raws of the make, model, year and option-count draws of a group
MakeRaws(f) == When(f \in {"catalog", "pricing"}, Indexes(MakeKeys))

ModelRaws(f, mk) ==
  When(f \in {"catalog", "pricing"}, Indexes(ModelKeys[Choice(MakeKeys, mk)]))

YearRaws(f, mk, md) ==
  When(f \in {"catalog", "pricing"},
       Indexes(makes_data[Choice(MakeKeys, mk)].models[
                 Choice(ModelKeys[Choice(MakeKeys, mk)], md)].years))

CountRaws(f) ==
  IF f = "options" THEN 0..5 ELSE IF f = "pricing" THEN {0, 5} ELSE {0}

\* ---------------------------------------------------------------------------
\* generate_car called on its own
\* ---------------------------------------------------------------------------
None == [none |-> TRUE]

\* an empty working directory
NoFiles == <<>>

Idle == [pc |-> "idle", now |-> StartDate, ticks |-> 0, inventory |-> <<>>]

InitCar ==
  /\ now = StartDate
  /\ ticks = 0
  /\ car = None
  /\ frame = None
  /\ pc = "call"
  /\ count = 0
  /\ inventory = <<>>
  /\ tape = <<>>
  /\ second = Idle
  /\ files = NoFiles
  /\ client_ids = None
  /\ ran = <<>>
  /\ contact = None

\* the locals of the call kept beside the returned record
Frame(l) == [base_price |-> l.base_price, options_cost |-> l.options_cost]

\* car = generator.generate_car()
GenerateCar ==
  \E f \in Focus : \E mk \in MakeRaws(f) : \E md \in ModelRaws(f, mk) :
  \E yr \in YearRaws(f, mk, md) : \E no \in CountRaws(f) :
  \E d \in CallDraws(f, mk, md, yr, no) :
    /\ pc = "call"
    /\ IF Raises(d)
         THEN /\ car' = None
              /\ frame' = None
              /\ pc' = "raised"
         ELSE /\ car' = generate_car(d, now)
              /\ frame' = Frame(Locals(d))
              /\ pc' = "returned"
    /\ UNCHANGED <<contact, now, ticks, count, inventory, tape, second, files, client_ids, ran>>

\* midnight passes while the program runs
Tick ==
  /\ pc \in {"call", "born", "generate"}
  /\ ticks < MaxTicks
  /\ now' = NextDay(now)
  /\ ticks' = ticks + 1
  /\ UNCHANGED <<contact, car, frame, pc, count, inventory, tape, second, files, client_ids, ran>>

NextCar == GenerateCar \/ Tick

SpecCar == InitCar /\ [][NextCar]_vars

\* ---------------------------------------------------------------------------
\* generate_inventory, run twice from the same PRNG state
\* ---------------------------------------------------------------------------
\* the draws fed to the calls of a batch: a BMW M3 of the first or the last
\* eligible year, with the first or the last stock number
DrawsInv ==
  {[d EXCEPT !.stock = st] :
     d \in UNION {CallDraws("batch", 0, 0, yr, 0) :
                   yr \in {0, Cardinality(YearRaws("pricing", 0, 0)) - 1}},
     st \in {0, 99999 - 10000}}

\* the dates the clock can read while a run is under way
RECURSIVE DaysFrom(_, _)
DaysFrom(t, n) == IF n = 0 THEN {t} ELSE {t} \cup DaysFrom(NextDay(t), n - 1)

\* self.generate_car() in the loop, tabulated: the record returned on the draws d
\* when the clock reads t
CarOf == [d \in DrawsInv, t \in DaysFrom(StartDate, MaxTicks) |-> generate_car(d, t)]

\* the draws the PRNG can yield to the i-th generate_car() call: the recorded
\* ones if a run has already made that call, any otherwise
DrawsAt(i) == IF i <= Len(tape) THEN {tape[i]} ELSE DrawsInv

Record(i, d) == IF i <= Len(tape) THEN tape ELSE Append(tape, d)

InitRuns ==
  /\ now = StartDate
  /\ ticks = 0
  /\ car = None
  /\ frame = None
  /\ pc = "generate"
  /\ count \in 0..MaxCount
  /\ inventory = <<>>
  /\ tape = <<>>
  /\ second = [Idle EXCEPT !.pc = "generate"]
  /\ files = NoFiles
  /\ client_ids = None
  /\ ran = <<>>
  /\ contact = None

\* mutation of the loop body: a record whose stock number is already in the
\* batch is dropped
GenerateInventoryStepRejecting ==
  /\ pc = "generate"
  /\ Len(inventory) < count
  /\ \E d \in DrawsInv :
       /\ inventory' =
            IF \E j \in DOMAIN inventory :
                 inventory[j].stock_number = CarOf[d, now].stock_number
              THEN inventory
              ELSE Append(inventory, CarOf[d, now])
       /\ tape' = Append(tape, d)
  /\ UNCHANGED <<contact, now, ticks, car, frame, pc, count, second, files, client_ids, ran>>

\* one iteration of the loop: inventory.append(self.generate_car())
GenerateInventoryStep ==
  /\ pc = "generate"
  /\ Len(inventory) < count
  /\ \E d \in DrawsAt(Len(inventory) + 1) :
       /\ inventory' = Append(inventory, CarOf[d, now])
       /\ tape' = Record(Len(inventory) + 1, d)
  /\ UNCHANGED <<contact, now, ticks, car, frame, pc, count, second, files, client_ids, ran>>

\* mutation of the return: the loop left one iteration early
GenerateInventoryReturnEarly ==
  /\ pc = "generate"
  /\ Len(inventory) + 1 >= count
  /\ pc' = "done"
  /\ UNCHANGED <<contact, now, ticks, car, frame, count, inventory, tape, second, files, client_ids, ran>>

\* return inventory
GenerateInventoryReturn ==
  /\ pc = "generate"
  /\ Len(inventory) = count
  /\ pc' = "done"
  /\ UNCHANGED <<contact, now, ticks, car, frame, count, inventory, tape, second, files, client_ids, ran>>

\* the same iteration in the second run
SecondStep ==
  /\ second.pc = "generate"
  /\ Len(second.inventory) < count
  /\ \E d \in DrawsAt(Len(second.inventory) + 1) :
       /\ second' = [second EXCEPT
                       !.inventory = Append(@, CarOf[d, second.now])]
       /\ tape' = Record(Len(second.inventory) + 1, d)
  /\ UNCHANGED <<contact, now, ticks, car, frame, pc, count, inventory, files, client_ids, ran>>

SecondReturn ==
  /\ second.pc = "generate"
  /\ Len(second.inventory) = count
  /\ second' = [second EXCEPT !.pc = "done"]
  /\ UNCHANGED <<contact, now, ticks, car, frame, pc, count, inventory, tape, files, client_ids, ran>>

\* midnight passes while the second run is under way
SecondTick ==
  /\ second.pc = "generate"
  /\ second.ticks < MaxTicks
  /\ second' = [second EXCEPT !.now = NextDay(@), !.ticks = @ + 1]
  /\ UNCHANGED <<contact, now, ticks, car, frame, pc, count, inventory, tape, files, client_ids, ran>>

NextRuns ==
  \/ GenerateInventoryStep
  \/ GenerateInventoryReturn
  \/ Tick
  \/ SecondStep
  \/ SecondReturn
  \/ SecondTick

SpecRuns == InitRuns /\ [][NextRuns]_vars

\* the interpreter keeps executing the loop of generate_inventory and its return
SpecRunsFair ==
  /\ SpecRuns
  /\ WF_vars(GenerateInventoryStep)
  /\ WF_vars(GenerateInventoryReturn)

\* ---------------------------------------------------------------------------
\* main: generate_inventory, print_sample, save_to_json, then save_to_csv
\* ---------------------------------------------------------------------------
\* a car_inventory.csv left in the working directory by something else
StaleCsv == [writer |-> "external", lines |-> <<"stock_number,vin", "ST1,X">>]

\* the working directory main starts in: empty, or with a file of that name
SaveDirs == {NoFiles, ("car_inventory.csv" :> StaleCsv) @@ NoFiles}

InitSave ==
  /\ now = StartDate
  /\ ticks = 0
  /\ car = None
  /\ frame = None
  /\ pc = "generate"
  /\ count \in 0..MaxCount
  /\ inventory = <<>>
  /\ tape = <<>>
  /\ second = Idle
  /\ files \in SaveDirs
  /\ client_ids = None
  /\ ran = <<>>
  /\ contact = None

\* generator.print_sample(inventory, count=5): the slices inventory[:count]
\* and car['options'][:3] are new lists, the records are only read
PrintSample ==
  /\ pc = "done"
  /\ pc' = "sampled"
  /\ ran' = Append(ran, "print_sample")
  /\ UNCHANGED <<contact, now, ticks, car, frame, count, inventory, tape, second,
                 files, client_ids>>

\* generator.save_to_json(inventory, "car_inventory.json")
SaveToJson ==
  /\ pc = "sampled"
  /\ files' = save_to_json(inventory, "car_inventory.json", files)
  /\ pc' = "json"
  /\ ran' = Append(ran, "save_to_json")
  /\ UNCHANGED <<contact, now, ticks, car, frame, count, inventory, tape, second,
                 client_ids>>

\* generator.save_to_csv(inventory, "car_inventory.csv")
SaveToCsv ==
  /\ pc = "json"
  /\ files' = save_to_csv(inventory, "car_inventory.csv", files)
  /\ inventory' = InventoryAfterCsv(inventory)
  /\ pc' = "saved"
  /\ ran' = Append(ran, "save_to_csv")
  /\ UNCHANGED <<contact, now, ticks, car, frame, count, tape, second, client_ids>>

NextSave ==
  \/ GenerateInventoryStep
  \/ GenerateInventoryReturn
  \/ PrintSample
  \/ SaveToJson
  \/ SaveToCsv
  \/ Tick

SpecSave == InitSave /\ [][NextSave]_vars

\* ---------------------------------------------------------------------------
\* The CSV scripts: generate_client_data.py, generate_dealer_data.py and the
\* loader of generate_venote_data.py, run in one working directory
\* ---------------------------------------------------------------------------
\* values the Faker calls of the scripts can return
Fake ==
  [first_name |-> <<"John", "Jane">>,
   last_name |-> <<"Doe", "Smith">>,
   email |-> <<"john.doe@example.com", "jane.smith@example.org">>,
   phone_number |-> <<"(555) 123-4567", "555.987.6543">>,
   street_address |-> <<"123 Main St", "456 Oak Ave Apt. 7">>,
   city |-> <<"Anytown", "Port Lisa">>,
   state_abbr |-> <<"CA", "TX">>,
   zipcode |-> <<"12345", "67890">>,
   company |-> <<"Acme", "Smith, Jones and Lee">>,
   company_email |-> <<"info@acme.example", "sales@sjl.example">>]

\* values str(uuid.uuid4()) can return
Uuid4s ==
  <<"0b1c6f0e-5d3a-4c1b-9e2f-7a1d3c5b9f01", "9d2e4a7c-1f6b-4e8d-a3c5-2b7f9e1d4c02">>

lead_sources ==
  <<"Google Ads", "Referral", "Walk-in", "Website", "Event", "Instagram",
    "Facebook", "Trade Show", "Print Ad">>

statuses == <<"LEAD", "CUSTOMER", "PREVIOUS">>

\* the file name of fs written anew by the script writer
WriteFile(filename, writer, lines, fs) ==
  (filename :> [writer |-> writer, lines |-> lines]) @@ fs

\* the draws of one generate_client_entry() call: fake is what the Faker
\* calls yield, source, status and notes what the random.choice calls yield
ClientDraws == {[fake |-> r, source |-> r, status |-> r, notes |-> r] : r \in 0..1}

\* the row generate_client_entry returns
generate_client_entry(d) ==
  <<Choice(Fake.first_name, d.fake), Choice(Fake.last_name, d.fake),
    Choice(Fake.email, d.fake), Choice(Fake.phone_number, d.fake),
    Choice(Fake.street_address, d.fake), Choice(Fake.city, d.fake),
    Choice(Fake.state_abbr, d.fake), Choice(Fake.zipcode, d.fake),
    Choice(lead_sources, d.source), Choice(statuses, d.status)>>

ClientHeaders ==
  <<"First Name", "Last Name", "Email", "Phone", "Address", "City", "State",
    "Zip", "Source", "Status">>

\* clients_test.csv as the script writes it
MinimalData ==
  <<ClientHeaders,
    <<"John", "Doe", "john.doe@email.com", "(555) 123-4567", "123 Main St",
      "Anytown", "CA", "12345", "Website", "LEAD">>,
    <<"Jane", "Smith", "jane.smith@email.com", "(555) 987-6543", "456 Oak Ave",
      "Somewhere", "TX", "67890", "Referral", "CUSTOMER">>,
    <<"Bob", "Johnson", "bob.johnson@email.com", "(555) 456-7890",
      "789 Pine Rd", "Elsewhere", "NY", "54321", "Google Ads", "PREVIOUS">>>>

\* the lines csv.writer writes for the rows
CsvLines(rows) == [i \in DOMAIN rows |-> CsvLine(rows[i])]

\* the working directory fs after generate_clients_csv(filename, count), the
\* count calls of generate_client_entry drawing ds[1], ds[2], ...
generate_clients_csv(filename, ds, fs) ==
  WriteFile(filename, "generate_client_data.py",
            CsvLines(<<ClientHeaders>> \o [i \in DOMAIN ds |-> generate_client_entry(ds[i])]),
            fs)

Ran(step) == \E i \in DOMAIN ran : ran[i] = step

\* python generate_client_data.py: clients_import.csv (25 rows in the script,
\* up to MaxClients here) and then clients_test.csv
GenerateClientsMain ==
  /\ pc = "scripts"
  /\ ~Ran("generate_client_data.py")
  /\ \E n \in 0..MaxClients : \E ds \in [1..n -> ClientDraws] :
       files' = WriteFile("clients_test.csv", "generate_client_data.py",
                          CsvLines(MinimalData),
                          generate_clients_csv("clients_import.csv", ds, files))
  /\ ran' = Append(ran, "generate_client_data.py")
  /\ UNCHANGED <<contact, now, ticks, car, frame, pc, count, inventory, tape, second,
                 client_ids>>

\* the draws of one generate_dealership_entry() call
DealershipDraws == {[uuid |-> r, fake |-> r] : r \in 0..1}

\* the row generate_dealership_entry returns
generate_dealership_entry(d) ==
  <<Choice(Uuid4s, d.uuid), Choice(Fake.company, d.fake) \o " Motors",
    Choice(Fake.street_address, d.fake), Choice(Fake.city, d.fake),
    Choice(Fake.state_abbr, d.fake), Choice(Fake.zipcode, d.fake),
    Choice(Fake.phone_number, d.fake), Choice(Fake.company_email, d.fake)>>

DealershipHeaders ==
  <<"id", "name", "address", "city", "state", "zipCode", "phone", "email">>

\* the working directory fs after generate_dealerships_csv(filename, count)
generate_dealerships_csv(filename, ds, fs) ==
  WriteFile(filename, "generate_dealer_data.py",
            CsvLines(<<DealershipHeaders>> \o
                     [i \in DOMAIN ds |-> generate_dealership_entry(ds[i])]),
            fs)

\* python generate_dealer_data.py: dealerships.csv (5 rows in the script, up
\* to MaxDealerships here)
GenerateDealershipsMain ==
  /\ pc = "scripts"
  /\ ~Ran("generate_dealer_data.py")
  /\ \E n \in 0..MaxDealerships : \E ds \in [1..n -> DealershipDraws] :
       files' = generate_dealerships_csv("dealerships.csv", ds, files)
  /\ ran' = Append(ran, "generate_dealer_data.py")
  /\ UNCHANGED <<contact, now, ticks, car, frame, pc, count, inventory, tape, second,
                 client_ids>>

\* [row[0] for idx, row in enumerate(rows) if idx != 0]: IndexError on a row
\* without fields
FirstColumn(rows) ==
  IF \E i \in 2..Len(rows) : rows[i] = <<>> THEN [raised |-> "IndexError"]
  ELSE [ids |-> [i \in 1..(Len(rows) - 1) |-> rows[i + 1][1]]]

ReadRows(lines) == [i \in DOMAIN lines |-> CsvParse(lines[i])]

\* what load_client_ids(filename) returns or raises in the working directory fs
load_client_ids(filename, fs) ==
  IF filename \notin DOMAIN fs THEN [raised |-> "FileNotFoundError"]
  ELSE FirstColumn(ReadRows(fs[filename].lines))

\* client_ids = load_client_ids("clients.csv"), the first statement of
\* generate_venote_data.py
LoadClientIds ==
  /\ pc = "scripts"
  /\ client_ids = None
  /\ client_ids' = load_client_ids("clients.csv", files)
  /\ ran' = Append(ran, "load_client_ids")
  /\ UNCHANGED <<contact, now, ticks, car, frame, pc, count, inventory, tape, second,
                 files>>

\* the working directory the scripts are started in: empty, or holding a
\* clients.csv that no script of the repository wrote
InitialDirs ==
  {NoFiles,
   WriteFile("clients.csv", "external",
             <<"id,firstName,lastName", "c-1001,John,Doe", "c-1002,Jane,Smith">>,
             NoFiles),
   WriteFile("clients.csv", "external", <<"id", "c-1001", "">>, NoFiles)}

InitScripts ==
  /\ now = StartDate
  /\ ticks = 0
  /\ car = None
  /\ frame = None
  /\ pc = "scripts"
  /\ count = 0
  /\ inventory = <<>>
  /\ tape = <<>>
  /\ second = Idle
  /\ files \in InitialDirs
  /\ client_ids = None
  /\ ran = <<>>
  /\ contact = None

NextScripts ==
  \/ GenerateClientsMain
  \/ GenerateDealershipsMain
  \/ LoadClientIds

SpecScripts == InitScripts /\ [][NextScripts]_vars

\* ---------------------------------------------------------------------------
\* generate_venote_data.py: load_client_ids, then generate_vehicle_notes_csv
\* ---------------------------------------------------------------------------
\* values fake.paragraph(nb_sentences=3) can return
Paragraphs ==
  <<"Oil changed. Tires rotated. Brakes fine.",
    "Called, wants a quote. Asked for \"sport\".">>

\* datetime.now().isoformat(), r picking the time of day the clock reads
IsoFormat(today, r) ==
  Strftime(today) \o "T" \o Choice(<<"09:15:02.000417", "09:15:02.000533">>, r)

\* dates fake.date_between(start_date="-2y", end_date="today") can return
DatesBetween(today) == <<[today EXCEPT !.y = @ - 2, !.d = 28], today>>

\* the draws of one generate_client_vehicle_note() call
NoteDraws ==
  <<[uuid |-> 0, date |-> 0, paragraph |-> 0, created |-> 0, updated |-> 0],
    [uuid |-> 1, date |-> 1, paragraph |-> 1, created |-> 0, updated |-> 1]>>

\* mutation of generate_client_vehicle_note: the client id in the first column
generate_client_vehicle_note_swapped(client_id, d, today) ==
  <<client_id,
    Choice(Uuid4s, d.uuid),
    Strftime(Choice(DatesBetween(today), d.date)),
    Choice(Paragraphs, d.paragraph),
    IsoFormat(today, d.created),
    IsoFormat(today, d.updated)>>

generate_client_vehicle_note(client_id, d, today) ==
  <<Choice(Uuid4s, d.uuid),
    client_id,
    Strftime(Choice(DatesBetween(today), d.date)),
    Choice(Paragraphs, d.paragraph),
    IsoFormat(today, d.created),
    IsoFormat(today, d.updated)>>

NoteHeaders == <<"id", "clientId", "date", "note", "createdAt", "updatedAt">>

\* the rows the loops write and the total they count, from the i-th client on:
\* ks[i] is the raw of random.randint(*notes_per_client) for the i-th client,
\* ps[i] the draws of its notes
RECURSIVE NotesFrom(_, _, _, _, _, _)
NotesFrom(i, ids, npc, ks, ps, today) ==
  IF i > Len(ids) THEN [rows |-> <<>>, total_notes |-> 0]
  ELSE LET n == RandInt(npc[1], npc[2], ks[i])
           rest == NotesFrom(i + 1, ids, npc, ks, ps, today)
       IN [rows |->
             [j \in 1..n |->
                generate_client_vehicle_note(
                  ids[i], Choice(NoteDraws, ps[i][j]), today)]
             \o rest.rows,
           total_notes |-> n + rest.total_notes]

\* the working directory and the locals after
\* generate_vehicle_notes_csv(filename, client_ids, notes_per_client) on the
\* client ids cv, None included
generate_vehicle_notes_csv(filename, cv, npc, ks, ps, today, fs) ==
  LET given == IF cv = None THEN load_client_ids("clients.csv", fs) ELSE cv
      notes == NotesFrom(1, given.ids, npc, ks, ps, today)
  IN [files |-> WriteFile(filename, "generate_venote_data.py",
                          CsvLines(<<NoteHeaders>> \o notes.rows), fs),
      locals |-> [client_ids |-> given.ids,
                  notes_per_client |-> npc,
                  total_notes |-> notes.total_notes]]

\* generate_vehicle_notes_csv("client_vehicle_notes.csv", client_ids), reached
\* when load_client_ids has returned: notes_per_client is the default or a
\* range that lets a client go without a note, ps[i] picks the draws of the
\* notes of the i-th client, one per pass of the inner loop
GenerateVehicleNotesMain ==
  /\ pc = "scripts"
  /\ "ids" \in DOMAIN client_ids
  /\ ~Ran("generate_vehicle_notes_csv")
  /\ \E npc \in {<<1, 3>>, <<0, 1>>} :
     \E ks \in [DOMAIN client_ids.ids -> 0..(npc[2] - npc[1])] :
     \E ps \in [DOMAIN client_ids.ids -> {<<0, 0, 0>>, <<0, 1, 0>>, <<1, 0, 1>>}] :
       LET call == generate_vehicle_notes_csv(
                     "client_vehicle_notes.csv", client_ids, npc, ks, ps, now, files)
       IN /\ files' = call.files
          /\ frame' = call.locals
  /\ ran' = Append(ran, "generate_vehicle_notes_csv")
  /\ UNCHANGED <<contact, now, ticks, car, pc, count, inventory, tape, second, client_ids>>

\* the working directories the notes script is started in: without a
\* clients.csv, or with one of up to MaxIds client rows supplied from outside,
\* some with a comma in the id
NotesDirs ==
  {NoFiles} \cup
  {WriteFile("clients.csv", "external",
             <<"id,firstName,lastName">>
               \o [i \in DOMAIN pick |->
                     Choice(<<"c-1001,John,Doe", "\"Doe, John\",x,y">>, pick[i])],
             NoFiles) :
     pick \in UNION {[1..n -> {0, 1}] : n \in 0..MaxIds}}

InitNotes ==
  /\ now = StartDate
  /\ ticks = 0
  /\ car = None
  /\ frame = None
  /\ pc = "scripts"
  /\ count = 0
  /\ inventory = <<>>
  /\ tape = <<>>
  /\ second = Idle
  /\ files \in NotesDirs
  /\ client_ids = None
  /\ ran = <<>>
  /\ contact = None

NextNotes ==
  \/ LoadClientIds
  \/ GenerateVehicleNotesMain

SpecNotes == InitNotes /\ [][NextNotes]_vars

\* ---------------------------------------------------------------------------
\* contact_generator.py: generate_birth_date and the fields of generate_contact
\* that depend on it.  The names, the phone number and the address are drawn
\* independently of the date and are left out of the dict.
\* ---------------------------------------------------------------------------
\* the days of the year y before the first of month m
RECURSIVE DaysBeforeMonth(_, _)
DaysBeforeMonth(y, m) ==
  IF m = 1 THEN 0 ELSE DaysBeforeMonth(y, m - 1) + DaysInMonth(y, m - 1)

\* date.toordinal(): 1 for 0001-01-01
ToOrdinal(t) ==
  LET y == t.y - 1
  IN y * 365 + (y \div 4) - (y \div 100) + (y \div 400)
     + DaysBeforeMonth(t.y, t.m) + t.d

\* date.fromordinal(n)
FromOrdinal(n) ==
  LET n0 == n - 1
      n400 == n0 \div 146097
      r400 == n0 % 146097
      n100 == r400 \div 36524
      r100 == r400 % 36524
      n4 == r100 \div 1461
      r4 == r100 % 1461
      n1 == r4 \div 365
      r1 == r4 % 365
      year == n400 * 400 + 1 + n100 * 100 + n4 * 4 + n1
  IN IF n1 = 4 \/ n100 = 4 THEN [y |-> year - 1, m |-> 12, d |-> 31]
     ELSE LET month == CHOOSE m \in 1..12 :
                         /\ DaysBeforeMonth(year, m) <= r1
                         /\ r1 < DaysBeforeMonth(year, m) + DaysInMonth(year, m)
          IN [y |-> year, m |-> month, d |-> r1 - DaysBeforeMonth(year, month) + 1]

\* the date string generate_birth_date(min_age, max_age) returns when the
\* clock reads today and the two randint calls yield the raws d.years, d.days
generate_birth_date(min_age, max_age, d, today) ==
  LET years_ago == RandInt(min_age, max_age, d.years)
      days_ago == RandInt(0, 365, d.days)
  IN Strftime(FromOrdinal(ToOrdinal(today) - (years_ago * 365 + days_ago)))

\* s.split(sep)[0] for a one-character sep
SplitHead(s, sep) ==
  LET at == {i \in 1..Len(s) : SubSeq(s, i, i) = sep} \cup {Len(s) + 1}
  IN SubSeq(s, 1, (CHOOSE i \in at : \A k \in at : i <= k) - 1)

\* int(s) of a string of decimal digits
RECURSIVE ParseInt(_)
ParseInt(s) ==
  IF Len(s) = 0 THEN 0
  ELSE ParseInt(SubSeq(s, 1, Len(s) - 1)) * 10
       + (CHOOSE v \in 0..9 : ToString(v) = SubSeq(s, Len(s), Len(s)))

\* the date_of_birth and age entries of the dict generate_contact() builds
\* from the birth date of its generate_birth_date() call, the clock reading
\* today when the dict is built
generate_contact(birth_date, today) ==
  LET birth_year == ParseInt(SplitHead(birth_date, "-"))
  IN [date_of_birth |-> birth_date, age |-> today.y - birth_year]

\* raws of the randint calls of generate_birth_date
ContactDraws ==
  [years : Raws(18, 75, {}), days : Raws(0, 365, {})]

\* the dates the clock can read when generate_contact is called
ContactDates ==
  {StartDate,
   [y |-> 2025, m |-> 12, d |-> 27],
   [y |-> 2025, m |-> 6, d |-> 15],
   [y |-> 2025, m |-> 1, d |-> 1],
   [y |-> 2024, m |-> 2, d |-> 29],
   [y |-> 2026, m |-> 11, d |-> 6]}

InitContact ==
  /\ now \in ContactDates
  /\ ticks = 0
  /\ car = None
  /\ frame = None
  /\ pc = "call"
  /\ count = 0
  /\ inventory = <<>>
  /\ tape = <<>>
  /\ second = Idle
  /\ files = NoFiles
  /\ client_ids = None
  /\ ran = <<>>
  /\ contact = None

\* birth_date = self.generate_birth_date()
GenerateBirthDate ==
  /\ pc = "call"
  /\ \E d \in ContactDraws :
       frame' = [birth_date |-> generate_birth_date(18, 75, d, now),
                 today |-> now,
                 years_ago |-> RandInt(18, 75, d.years),
                 days_ago |-> RandInt(0, 365, d.days)]
  /\ pc' = "born"
  /\ UNCHANGED <<contact, now, ticks, car, count, inventory, tape, second, files,
                 client_ids, ran>>

\* the dict built and returned, datetime.now() read again for the age
GenerateContact ==
  /\ pc = "born"
  /\ contact' = generate_contact(frame.birth_date, now)
  /\ pc' = "returned"
  /\ UNCHANGED <<now, ticks, car, frame, count, inventory, tape, second, files,
                 client_ids, ran>>

NextContact ==
  \/ GenerateBirthDate
  \/ GenerateContact
  \/ Tick

SpecContact == InitContact /\ [][NextContact]_vars

\* ---------------------------------------------------------------------------
\* Properties of the record returned by generate_car
\* ---------------------------------------------------------------------------
Returned == pc = "returned"

\* C1: the condition of a returned record is a function of its mileage alone:
\* "New" exactly when mileage < 100, "Demo" exactly when 100 <= mileage < 1000,
\* "Used" exactly when mileage >= 1000.
C1_ConditionFromMileage ==
  Returned =>
    /\ car.condition = "New" <=> car.mileage < 100
    /\ car.condition = "Demo" <=> (100 <= car.mileage /\ car.mileage < 1000)
    /\ car.condition = "Used" <=> car.mileage >= 1000

C1_Witness == Returned /\ car.mileage = 100 /\ car.condition = "Demo"

\* C2, as claimed: a returned record of year 2025 has mileage in [5, 500] and
\* condition "New".
C2_Year2025IsNew ==
  (Returned /\ car.year = 2025) =>
    (car.mileage \in 5..500 /\ car.condition = "New")

\* C2, amended: a returned record of year 2025 has mileage in [5, 500] and
\* condition "New" or "Demo", "New" exactly when the mileage is below 100.
C2_Year2025IsNewOrDemo ==
  (Returned /\ car.year = 2025) =>
    /\ car.mileage \in 5..500
    /\ car.condition \in {"New", "Demo"}
    /\ car.condition = "New" <=> car.mileage < 100

C2_Witness ==
  Returned /\ car.year = 2025 /\ car.mileage = 500 /\ car.condition = "Demo"

\* floor and remainder of s * (1000000 - 3 * mileage) / 1000000, the exact
\* value of s * (1 - mileage/100000 * 0.3)
ExactSplit(d1, d2) == [floor |-> BToInt(d2.q), rem |-> d2.r * 1000 + d1.r]

ExactThousands(d1) == ExactSplit(d1, BDivSmall(d1.q, 1000))

ExactUsed(s, mileage) ==
  ExactThousands(BDivSmall(BMul(BFromInt(s), BFromInt(1000000 - 3 * mileage)), 1000))

\* price is an integer nearest to ex.floor + ex.rem / 1000000
IsNearest(price, ex) ==
  \/ price = ex.floor /\ ex.rem <= 500000
  \/ price = ex.floor + 1 /\ ex.rem >= 500000

\* price is ex.floor, or one less when the exact value is the whole number ex.floor
IsFloorOrBelowWhole(price, ex) ==
  \/ price = ex.floor
  \/ ex.rem = 0 /\ price = ex.floor - 1

\* C3, as claimed: the price is base_price + options_cost for New, and that sum
\* times 0.95 (Demo) or times 1 - mileage/100000 * 0.3 (Used) rounded to the
\* nearest integer, i.e. no further than 1/2 from the exact product.
C3_PriceRounded ==
  Returned =>
    LET s == frame.base_price + frame.options_cost
    IN CASE car.condition = "New" -> car.price = s
         [] car.condition = "Demo" ->
              /\ 20 * car.price - 19 * s <= 10
              /\ 19 * s - 20 * car.price <= 10
         [] car.condition = "Used" -> IsNearest(car.price, ExactUsed(s, car.mileage))

\* C3, amended: the price is base_price + options_cost for New; that sum times
\* 0.95 truncated to an integer for Demo; that sum times
\* 1 - mileage/100000 * 0.3, computed in double precision and truncated to an
\* integer, for Used, which is the floor of the exact product or, when the
\* exact product is a whole number, possibly one less.
C3_PriceTruncated ==
  Returned =>
    LET s == frame.base_price + frame.options_cost
    IN CASE car.condition = "New" -> car.price = s
         [] car.condition = "Demo" -> car.price = (19 * s) \div 20
         [] car.condition = "Used" ->
              IsFloorOrBelowWhole(car.price, ExactUsed(s, car.mileage))

\* a Used record whose exact product 240133 is computed as 240132.99999999997
C3_Witness ==
  /\ Returned
  /\ car.condition = "Used"
  /\ frame.base_price + frame.options_cost = 250000
  /\ car.mileage = 13156
  /\ car.price = 240132

\* C4: the price of a returned record is a non-negative integer, for every
\* catalog entry and every outcome of the draws.
C4_PriceNonNegative == Returned => car.price \in Nat

C4_Witness ==
  Returned /\ car.condition = "Used" /\ car.mileage = 50000 /\ car.price > 0

\* C5: a returned record agrees with the catalog entry of its make and model:
\* the model is a model of the make, the year is an eligible year, the
\* horsepower lies in the hp range, and trim, transmission and body type are
\* values of that entry.
C5_ConsistentWithCatalog ==
  Returned =>
    /\ car.make \in DOMAIN makes_data
    /\ car.model \in DOMAIN makes_data[car.make].models
    /\ LET e == makes_data[car.make].models[car.model]
       IN /\ \E i \in DOMAIN e.years : e.years[i] = car.year
          /\ e.hp_range[1] <= car.horsepower
          /\ car.horsepower <= e.hp_range[2]
          /\ \E i \in DOMAIN e.trims : e.trims[i] = car.trim
          /\ \E i \in DOMAIN e.transmission : e.transmission[i] = car.transmission
          /\ car.body_type = e.body_type

C5_Witness ==
  /\ Returned
  /\ car.make = "Porsche"
  /\ car.model = "Taycan"
  /\ car.horsepower = 938
  /\ car.trim = "Turbo S"
  /\ car.year = 2025

\* C6: a returned record has between 3 and 8 options, pairwise distinct, all
\* from the pool of 27 option labels.
C6_OptionsDistinct ==
  Returned =>
    /\ Len(car.options) \in 3..8
    /\ \A i, j \in DOMAIN car.options :
         i # j => car.options[i] # car.options[j]
    /\ \A i \in DOMAIN car.options :
         \E j \in DOMAIN options : options[j] = car.options[i]
    /\ Cardinality({options[j] : j \in DOMAIN options}) = 27

C6_Witness ==
  /\ Returned
  /\ Len(car.options) = 8
  /\ car.options[1] = "Track Package"

UpperAndDigits ==
  {"A", "B", "C", "D", "E", "F", "G", "H", "I", "J", "K", "L", "M", "N", "O",
   "P", "Q", "R", "S", "T", "U", "V", "W", "X", "Y", "Z",
   "0", "1", "2", "3", "4", "5", "6", "7", "8", "9"}

\* C7: the VIN of a returned record has exactly 17 characters, each an
\* upper-case letter or a digit, and none of them I, O or Q.
C7_VinShape ==
  Returned =>
    /\ Len(car.vin) = 17
    /\ \A i \in 1..Len(car.vin) :
         SubSeq(car.vin, i, i) \in UpperAndDigits \ {"I", "O", "Q"}

C7_Witness ==
  /\ Returned
  /\ Len(car.vin) = 17
  /\ SubSeq(car.vin, 1, 1) = "9"
  /\ SubSeq(car.vin, 17, 17) = "S"

\* s has a contiguous slice equal to sub
HasSub(s, sub) ==
  \E i \in 1..Len(s) : \E j \in i..Len(s) : SubSeq(s, i, j) = sub

\* C9: the fuel type of a returned record is "Electric" if and only if its
\* model name contains "Taycan", and "Premium Gasoline" otherwise; Porsche
\* Taycan is Electric and Porsche 911 Carrera is Premium Gasoline.
C9_FuelType ==
  Returned =>
    /\ car.fuel_type = "Electric" <=>
         HasSub(car.model, "Taycan")
    /\ car.fuel_type \in {"Electric", "Premium Gasoline"}
    /\ (car.make = "Porsche" /\ car.model = "Taycan") => car.fuel_type = "Electric"
    /\ (car.make = "Porsche" /\ car.model = "911 Carrera") =>
         car.fuel_type = "Premium Gasoline"

C9_Witness ==
  Returned /\ car.make = "Porsche" /\ car.model = "Taycan" /\ car.fuel_type = "Electric"

\* C10: the drivetrain of a returned record is "AWD" when the make is Audi,
\* Lamborghini or Nissan or the model name contains "X5", "Cayenne" or "Urus";
\* for every other record it is "RWD" or "AWD".
C10_Drivetrain ==
  Returned =>
    IF \/ car.make \in {"Audi", "Lamborghini", "Nissan"}
       \/ HasSub(car.model, "X5")
       \/ HasSub(car.model, "Cayenne")
       \/ HasSub(car.model, "Urus")
      THEN car.drivetrain = "AWD"
      ELSE car.drivetrain \in {"RWD", "AWD"}

C10_Witness ==
  Returned /\ car.make = "BMW" /\ car.model = "M3" /\ car.drivetrain = "RWD"

\* ---------------------------------------------------------------------------
\* Properties of two runs of generate_inventory
\* ---------------------------------------------------------------------------
BothDone == pc = "done" /\ second.pc = "done"

\* C8, as claimed: two runs of generate_inventory started from the same PRNG
\* state return identical sequences of records, date_added included.
C8_RunsIdentical == BothDone => second.inventory = inventory

\* C8, amended: two runs of generate_inventory started from the same PRNG state
\* return sequences of the same length whose records agree in every field
\* other than date_added.
C8_RunsAgreeButDate ==
  BothDone =>
    /\ Len(second.inventory) = Len(inventory)
    /\ \A i \in DOMAIN inventory :
         /\ DOMAIN second.inventory[i] = DOMAIN inventory[i]
         /\ \A f \in DOMAIN inventory[i] \ {"date_added"} :
              second.inventory[i][f] = inventory[i][f]

C8_Witness ==
  /\ BothDone
  /\ Len(inventory) = 2
  /\ inventory[1].date_added = "2025-12-31"
  /\ second.inventory[1].date_added = "2026-01-01"
  /\ second.inventory[1].vin = inventory[1].vin
  /\ second.inventory[2].mileage = inventory[2].mileage

\* ---------------------------------------------------------------------------
\* Transmission type and mileage of the record returned by generate_car
\* ---------------------------------------------------------------------------
\* C14: the transmission type of a returned record is "DCT" if the label
\* contains "DCT", else "Manual" if it contains "Manual", else "Automatic", the
\* first match in that order winning (a label with both is "DCT"); the labels
\* "7-Speed ISR", "8-Speed PDK" and "2-Speed Automatic" are "Automatic".
C14_TransmissionType ==
  /\ TransType("7-Speed DCT Manual") = "DCT"
  /\ TransType("6-Speed Manual DCT") = "DCT"
  /\ Returned =>
       /\ car.transmission_type =
            IF HasSub(car.transmission, "DCT") THEN "DCT"
            ELSE IF HasSub(car.transmission, "Manual") THEN "Manual"
            ELSE "Automatic"
       /\ car.transmission \in {"7-Speed ISR", "8-Speed PDK", "2-Speed Automatic"}
            => car.transmission_type = "Automatic"

C14_Witness ==
  /\ Returned
  /\ car.transmission = "8-Speed PDK"
  /\ car.transmission_type = "Automatic"

\* C15: the mileage of a returned record lies in the band of its age relative
\* to 2025: age 0 in [5, 500], age 1 in [1000, 15000], age 2 in [8000, 30000],
\* age 3 or more in [15000, 50000]; hence it lies in [5, 50000].
C15_MileageInBand ==
  Returned =>
    /\ CASE 2025 - car.year = 0 -> car.mileage \in 5..500
         [] 2025 - car.year = 1 -> car.mileage \in 1000..15000
         [] 2025 - car.year = 2 -> car.mileage \in 8000..30000
         [] 2025 - car.year >= 3 -> car.mileage \in 15000..50000
         [] OTHER -> TRUE
    /\ car.mileage \in 5..50000

\* the ceiling of the age-2 band
C15_Witness == Returned /\ car.year = 2023 /\ car.mileage = 30000

\* ---------------------------------------------------------------------------
\* The alphabet of generate_vin
\* ---------------------------------------------------------------------------
\* the characters of the string s
CharsOf(s) == {SubSeq(s, i, i) : i \in 1..Len(s)}

\* A-Z minus I, O and Q, plus the digits
LettersNoIOQAndDigits == UpperAndDigits \ {"I", "O", "Q"}

\* the alphabet generate_vin draws from is A-Z minus I, O, Q plus 0-9, and the
\* characters of a generated VIN come from it
VinAlphabetIsNoIOQ ==
  /\ CharsOf(VinChars) = LettersNoIOQAndDigits
  /\ Returned => CharsOf(car.vin) \subseteq LettersNoIOQAndDigits

\* C16, as claimed: the VIN alphabet is exactly A-Z minus I, O and Q plus the
\* digits 0-9, and it has 34 characters.
C16_Alphabet34 == VinAlphabetIsNoIOQ /\ Len(VinChars) = 34

\* C16, amended: the VIN alphabet is exactly A-Z minus I, O and Q plus the
\* digits 0-9, each once, and it has 33 characters.
C16_Alphabet33 ==
  /\ VinAlphabetIsNoIOQ
  /\ Len(VinChars) = 33
  /\ Cardinality(CharsOf(VinChars)) = 33

\* a VIN drawn along the alphabet from its first character: H is followed by
\* J, N by P and P by R
C16_Witness == Returned /\ car.vin = "ABCDEFGHJKLMNPRST"

\* ---------------------------------------------------------------------------
\* Options cost and depreciation
\* ---------------------------------------------------------------------------
\* C17: the options cost of a returned record is the number of selected
\* options times one integer of [1000, 5000]: a multiple of the option count
\* whose quotient lies in [1000, 5000], and a value of [3000, 40000].
C17_OptionsCost ==
  Returned =>
    /\ Len(car.options) \in 3..8
    /\ frame.options_cost % Len(car.options) = 0
    /\ frame.options_cost \div Len(car.options) \in 1000..5000
    /\ frame.options_cost \in 3000..40000

\* eight options at 5000 each
C17_Witness ==
  /\ Returned
  /\ Len(car.options) = 8
  /\ frame.options_cost = 40000

\* price is the exact depreciated value ex, a multiple of 1/1000000, rounded
\* down, or one below it when ex is whole
LinearInMileage(price, ex) == ex.floor - 1 <= price /\ price <= ex.floor

\* C18: for a Used record the price is (base_price + options_cost) reduced
\* linearly in the mileage, by 0.3 of it per 100000 miles up to integer
\* conversion; the mileage is at most 50000, so the price is within one unit
\* of 85% of base_price + options_cost or above, and it never exceeds
\* base_price + options_cost.
C18_DepreciationBounded ==
  Returned /\ car.condition = "Used" =>
    LET s == frame.base_price + frame.options_cost
    IN /\ car.mileage <= 50000
       /\ LinearInMileage(car.price, ExactUsed(s, car.mileage))
       /\ 100 * (car.price + 1) > 85 * s
       /\ car.price <= s

\* the largest reduction: a Used record at 50000 miles priced at 85% of
\* base_price + options_cost, rounded down
C18_Witness ==
  /\ Returned
  /\ car.condition = "Used"
  /\ car.mileage = 50000
  /\ car.price = (17 * (frame.base_price + frame.options_cost)) \div 20

\* ---------------------------------------------------------------------------
\* Totality of generate_car
\* ---------------------------------------------------------------------------
EntryWellFormed(c) ==
  /\ Len(c.years) > 0
  /\ Len(c.trims) > 0
  /\ Len(c.transmission) > 0
  /\ c.hp_range[1] <= c.hp_range[2]
  /\ c.price_range[1] <= c.price_range[2]

\* C12: every (make, model) of the catalog has non-empty years, trims and
\* transmissions, hp_min <= hp_max and price_min <= price_max, the option pool
\* has at least 8 labels, and no call of generate_car ends in an exception.
C12_NoErrorOutcome ==
  /\ \A make \in DOMAIN makes_data : \A model \in DOMAIN makes_data[make].models :
       EntryWellFormed(makes_data[make].models[model])
  /\ Len(options) >= 8
  /\ pc # "raised"

\* a record with the largest sample, eight options, of a model whose
\* horsepower range is a single value
C12_Witness ==
  /\ Returned
  /\ Len(car.options) = 8
  /\ makes_data[car.make].models[car.model].hp_range = <<car.horsepower, car.horsepower>>

\* ---------------------------------------------------------------------------
\* Properties of generate_inventory
\* ---------------------------------------------------------------------------
\* the record r with its date_added blanked
Undated(r) == [r EXCEPT !.date_added = ""]

\* the i-th record of the batch is what one generate_car() call returns on the
\* draws of the i-th call, whatever the other records of the batch are
FromOwnCall(i) == Undated(inventory[i]) = Undated(generate_car(tape[i], StartDate))

\* C11: generate_inventory(count) terminates for every count >= 0 and returns
\* exactly count records, the i-th being the result of the i-th generate_car()
\* call alone.
C11_TerminatesWithCount ==
  /\ <>(pc = "done")
  /\ [](pc = "done" =>
         /\ Len(inventory) = count
         /\ \A i \in 1..count : FromOwnCall(i))

C11_Witness ==
  /\ pc = "done"
  /\ count = MaxCount
  /\ Len(inventory) = MaxCount
  /\ inventory[1].year # inventory[MaxCount].year

\* ---------------------------------------------------------------------------
\* Properties of save_to_csv
\* ---------------------------------------------------------------------------
Saved == pc = "saved"

CommasOf(line) == {i \in 1..Len(line) : SubSeq(line, i, i) = ","}

Least(S) == CHOOSE x \in S : \A y \in S : x <= y

CutAt(line, i) == [head |-> SubSeq(line, 1, i - 1), rest |-> SubSeq(line, i + 1, Len(line))]

\* the fields of a line without quoted fields: the text between its commas
RECURSIVE SplitAtCommas(_)
SplitRest(c) == <<c.head>> \o SplitAtCommas(c.rest)
SplitAtCommas(line) ==
  IF CommasOf(line) = {} THEN <<line>>
  ELSE SplitRest(CutAt(line, Least(CommasOf(line))))

\* the text the field k of the record r is to appear as
Shown(r, k) ==
  IF k = "options" THEN Join("; ", r.options)
  ELSE IF k \in {"year", "mileage", "horsepower", "price"} THEN ToString(r[k])
  ELSE r[k]

\* the fields of a row are the values of r under the names of the header
RowShows(fields, names, r) ==
  /\ Len(fields) = Len(names)
  /\ {names[k] : k \in DOMAIN names} = DOMAIN r
  /\ \A k \in DOMAIN names : fields[k] = Shown(r, names[k])

CsvShows(lines) ==
  /\ Len(lines) = Len(inventory) + 1
  /\ lines[1] = "stock_number,vin,condition,year,make,model,trim,body_type,"
                \o "exterior_color,interior_color,mileage,horsepower,"
                \o "transmission,transmission_type,drivetrain,fuel_type,"
                \o "options,price,date_added"
  /\ \A i \in DOMAIN inventory :
       RowShows(SplitAtCommas(lines[i + 1]), SplitAtCommas(lines[1]), inventory[i])

\* C13: save_to_csv on a non-empty inventory writes a header line of the
\* record's field names in insertion order, then one line per record in
\* inventory order, each field under its name and the options joined by "; ".
C13_CsvLayout ==
  Saved /\ inventory # <<>> =>
    /\ "car_inventory.csv" \in DOMAIN files
    /\ CsvShows(files["car_inventory.csv"].lines)

\* a file of two records, the second a new 2025 car with three options
C13_Witness ==
  /\ Saved
  /\ Len(inventory) = 2
  /\ "car_inventory.csv" \in DOMAIN files
  /\ Len(files["car_inventory.csv"].lines) = 3
  /\ files["car_inventory.csv"].lines[3] =
       "ST10000,AAAAAAAAAAAAAAAAA,New,2025,BMW,M3,Base,Sedan,Alpine White,Black,"
       \o "5,473,6-Speed Manual,Manual,RWD,Premium Gasoline,"
       \o "Carbon Fiber Package; Track Package; Aero Package,75000,2025-12-31"

\* C19: no uniqueness is enforced across a batch: every generate_car() call of
\* a run contributes its record, at its position, with the stock number and
\* the VIN of its own draws, whatever the earlier records carry, and the run
\* returns count records; a returned batch with two different records of the
\* same stock number and VIN is reachable (C19_Witness).
C19_NoUniquenessEnforced ==
  /\ second.inventory = <<>> => Len(tape) = Len(inventory)
  /\ \A i \in DOMAIN inventory :
       /\ inventory[i].stock_number = generate_stock_number(tape[i].stock)
       /\ inventory[i].vin = generate_vin(tape[i].vin)
  /\ pc = "done" => Len(inventory) = count

C19_Witness ==
  /\ pc = "done"
  /\ Len(inventory) = 2
  /\ inventory[1] # inventory[2]
  /\ inventory[1].stock_number = "ST10000"
  /\ inventory[2].stock_number = "ST10000"
  /\ inventory[1].vin = inventory[2].vin

\* ---------------------------------------------------------------------------
\* Properties of the CSV scripts
\* ---------------------------------------------------------------------------
\* the step a ran before the step b
RanBefore(a, b) ==
  \E i \in DOMAIN ran : \E j \in DOMAIN ran : i < j /\ ran[i] = a /\ ran[j] = b

\* C20, as claimed: the client ids the vehicle-notes generator consumes are
\* emitted by another generator script: once the generator scripts have run,
\* load_client_ids returns the first column of a clients.csv that a script of
\* the repository wrote.
C20_IdsFromAGenerator ==
  /\ RanBefore("generate_client_data.py", "load_client_ids")
  /\ RanBefore("generate_dealer_data.py", "load_client_ids")
  => /\ "ids" \in DOMAIN client_ids
     /\ files["clients.csv"].writer \in {"generate_client_data.py", "generate_dealer_data.py"}

\* what the scripts do instead: none writes clients.csv, so whenever the file
\* exists it was there before the scripts ran, and without it load_client_ids
\* raises
NoScriptWritesClientsCsv ==
  /\ "clients.csv" \in DOMAIN files => files["clients.csv"].writer = "external"
  /\ Ran("load_client_ids") /\ "clients.csv" \notin DOMAIN files
       => client_ids = [raised |-> "FileNotFoundError"]


\* ---------------------------------------------------------------------------
\* Conditions by model year
\* ---------------------------------------------------------------------------
\* the years the catalog entry of the record offers
EligibleYears(c) ==
  {makes_data[c.make].models[c.model].years[i] :
     i \in DOMAIN makes_data[c.make].models[c.model].years}

\* C22: every record of generate_car whose year is earlier than 2025 has
\* mileage >= 1000 and condition "Used", so a "New" or "Demo" record has
\* model year 2025, and a model whose eligible years exclude 2025 yields
\* "Used" records only.
C22_NewOrDemoOnly2025 ==
  Returned =>
    /\ car.year < 2025 => car.mileage >= 1000 /\ car.condition = "Used"
    /\ car.condition \in {"New", "Demo"} => car.year = 2025
    /\ 2025 \notin EligibleYears(car) => car.condition = "Used"

\* a 2024 record at the bottom of the age-1 band, of a model not offered
\* for 2025
C22_Witness ==
  /\ Returned
  /\ car.year = 2024
  /\ car.mileage = 1000
  /\ car.condition = "Used"
  /\ 2025 \notin EligibleYears(car)


\* ---------------------------------------------------------------------------
\* Properties of the writers
\* ---------------------------------------------------------------------------
\* C21: the writers never mutate the records: after print_sample, after
\* save_to_json and after save_to_csv the inventory still holds count records,
\* the options of each still the list of as many options as its call selected
\* (not the joined string), and each record is what its generate_car() call
\* returned.
C21_RecordsNotMutated ==
  pc \in {"sampled", "json", "saved"} =>
    /\ Len(inventory) = count
    /\ \A i \in DOMAIN inventory :
         /\ Len(inventory[i].options) = Len(CarOf[tape[i], StartDate].options)
         /\ FromOwnCall(i)

\* both files of a batch of two written, the CSV row of the first record
\* holding its three options joined while the record still lists them
C21_Witness ==
  /\ Saved
  /\ Len(inventory) = 2
  /\ inventory[1].options =
       <<"Carbon Fiber Package", "Track Package", "Aero Package">>
  /\ "car_inventory.json" \in DOMAIN files
  /\ "car_inventory.csv" \in DOMAIN files
  /\ files["car_inventory.csv"].writer = "car_inventory_generator.py"
  /\ HasSub(files["car_inventory.csv"].lines[2],
            "Carbon Fiber Package; Track Package; Aero Package")

\* C23: with an empty inventory save_to_json still writes a file holding the
\* empty array, and save_to_csv returns leaving the working directory as it
\* was: the output file neither created nor modified, no header row written.
C23_EmptyInventory ==
  /\ [](pc \in {"json", "saved"} /\ inventory = <<>> =>
          /\ "car_inventory.json" \in DOMAIN files
          /\ files["car_inventory.json"].lines = <<"[]">>)
  /\ [][pc = "json" /\ pc' = "saved" /\ inventory = <<>> => files' = files]_vars

\* main run to its end on an empty inventory in an empty directory
C23_Witness ==
  /\ Saved
  /\ inventory = <<>>
  /\ DOMAIN files = {"car_inventory.json"}
  /\ files["car_inventory.json"].lines = <<"[]">>

\* the same run in a directory that already held a car_inventory.csv
StaleCsvKept ==
  /\ Saved
  /\ inventory = <<>>
  /\ files["car_inventory.csv"] = StaleCsv


\* ---------------------------------------------------------------------------
\* Properties of the vehicle-notes generator
\* ---------------------------------------------------------------------------
NotesWritten == Ran("generate_vehicle_notes_csv")

\* the rows a csv reader finds below the header of client_vehicle_notes.csv
NoteRowsRead == ReadRows(Tail(files["client_vehicle_notes.csv"].lines))

\* ids[i] counts[i] times, for the i-th client id and those after it
RECURSIVE Grouped(_, _, _)
Grouped(ids, counts, i) ==
  IF i > Len(ids) THEN <<>>
  ELSE [j \in 1..counts[i] |-> ids[i]] \o Grouped(ids, counts, i + 1)

\* C24: generate_vehicle_notes_csv writes the header and then, for each client
\* id of client_ids in order, between notes_per_client[0] and
\* notes_per_client[1] rows carrying that id in the clientId column; total_notes
\* is the number of note rows, between 1 x and 3 x the number of client ids
\* under the default (1, 3), and no row carries an id outside client_ids.
C24_NotesPerClient ==
  NotesWritten =>
    LET ids == frame.client_ids
        npc == frame.notes_per_client
        rows == NoteRowsRead
    IN /\ ids = client_ids.ids
       /\ CsvParse(files["client_vehicle_notes.csv"].lines[1]) = NoteHeaders
       /\ \A i \in DOMAIN rows : Len(rows[i]) = Len(NoteHeaders)
       /\ \E counts \in [DOMAIN ids -> npc[1]..npc[2]] :
            [i \in DOMAIN rows |-> rows[i][2]] = Grouped(ids, counts, 1)
       /\ frame.total_notes = Len(rows)
       /\ npc[1] * Len(ids) <= frame.total_notes
       /\ frame.total_notes <= npc[2] * Len(ids)
       /\ npc = <<1, 3>> =>
            Len(ids) <= frame.total_notes /\ frame.total_notes <= 3 * Len(ids)
       /\ \A i \in DOMAIN rows : \E k \in DOMAIN ids : rows[i][2] = ids[k]

\* three notes for the first client and one for the second, whose id holds a
\* comma and is written quoted
C24_Witness ==
  /\ NotesWritten
  /\ frame.notes_per_client = <<1, 3>>
  /\ frame.client_ids = <<"c-1001", "Doe, John">>
  /\ frame.total_notes = 4
  /\ [i \in DOMAIN NoteRowsRead |-> NoteRowsRead[i][2]] =
       <<"c-1001", "c-1001", "c-1001", "Doe, John">>
  /\ HasSub(files["client_vehicle_notes.csv"].lines[5], ",\"Doe, John\",")


\* ---------------------------------------------------------------------------
\* Properties of the contact generator
\* ---------------------------------------------------------------------------
\* C25, as claimed: the age of every contact generate_contact returns lies
\* within [18, 75], whatever the current date is.
C25_AgeWithinRange ==
  contact # None => contact.age \in 18..75

\* what the code yields instead: years_ago * 365 + days_ago days is up to 365
\* days more than years_ago years and some leap days less, so the difference
\* of the calendar years runs from 17 to 76
AgeBetween17And76 ==
  contact # None => contact.age \in 17..76

\* a contact of age 17: 18 * 365 days before 2025-12-31 is 2008-01-05
AgeSeventeen ==
  /\ contact # None
  /\ frame.today = [y |-> 2025, m |-> 12, d |-> 31]
  /\ now = frame.today
  /\ frame.years_ago = 18
  /\ frame.days_ago = 0
  /\ contact = [date_of_birth |-> "2008-01-05", age |-> 17]

\* a contact of age 76: 75 * 365 + 365 days before 2025-06-15 is 1949-07-04
AgeSeventySix ==
  /\ contact # None
  /\ frame.today = [y |-> 2025, m |-> 6, d |-> 15]
  /\ frame.years_ago = 75
  /\ frame.days_ago = 365
  /\ contact = [date_of_birth |-> "1949-07-04", age |-> 76]

=============================================================================
